---- MODULE Spec2Model ----
(***************************************************************************)
(* A model of the RedisClient binding of src/src/lib.rs: the argument      *)
(* shaping helpers, the command dispatcher route_command, the per-command  *)
(* facades, and the connection of one client to one Redis server.          *)
(*                                                                         *)
(* Text is a sequence of one-character strings, so that concatenation,     *)
(* lower-casing, splitting and decimal formatting are computed and not     *)
(* assumed.                                                                *)
(***************************************************************************)
EXTENDS Integers, Sequences, FiniteSets, TLC

VARIABLES store, sock, borrow, call, outWire, inWire, ioFailed,
          url, db, selected, ctor

vars == <<store, sock, borrow, call, outWire, inWire, ioFailed,
          url, db, selected, ctor>>
\* The client's attributes, the database its connection is on, its constructor.
clientVars == <<url, db, selected, ctor>>
\* Everything the facades and the server work on.
wireVars == <<store, sock, borrow, call, outWire, inWire, ioFailed>>

(***************************************************************************)
(* Bounds of the model.                                                    *)
(***************************************************************************)
\* Longest variadic argument list a caller passes.
MaxElems == 2
\* Longest list the modelled server is asked to hold.
MaxList == 2
\* Number of caller threads sharing the one client instance.
NThreads == 2

Threads == 1..NThreads

(***************************************************************************)
(* Text helpers.                                                           *)
(***************************************************************************)
Digits == <<"0","1","2","3","4","5","6","7","8","9">>
UpperCase == <<"A","B","C","D","E","F","G","H","I","J","K","L","M","N","O","P","Q","R","S","T","U","V","W","X","Y","Z">>
LowerCase == <<"a","b","c","d","e","f","g","h","i","j","k","l","m","n","o","p","q","r","s","t","u","v","w","x","y","z">>

RECURSIVE DecNat(_)
DecNat(n) ==
  IF n < 10 THEN <<Digits[n + 1]>>
  ELSE DecNat(n \div 10) \o <<Digits[(n % 10) + 1]>>

\* Rust's Display for the integer types: usize, isize, u8, i64 to_string().
IntToString(n) == IF n < 0 THEN <<"-">> \o DecNat(0 - n) ELSE DecNat(n)

\* str::to_ascii_lowercase
LowerChar(c) ==
  IF \E i \in 1..Len(UpperCase) : UpperCase[i] = c
  THEN LowerCase[CHOOSE i \in 1..Len(UpperCase) : UpperCase[i] = c]
  ELSE c
ToAsciiLowercase(s) == [i \in 1..Len(s) |-> LowerChar(s[i])]

\* str::parse::<bool>: exactly "true" and "false" parse.
ParseBool(s) ==
  IF s = <<"t","r","u","e">> THEN [ok |-> TRUE, val |-> TRUE]
  ELSE IF s = <<"f","a","l","s","e">> THEN [ok |-> TRUE, val |-> FALSE]
  ELSE [ok |-> FALSE, val |-> FALSE]

\* Position of the first space of s, or 0.
FirstSpace(s) ==
  IF \E i \in 1..Len(s) : s[i] = " "
  THEN CHOOSE i \in 1..Len(s) : s[i] = " " /\ \A j \in 1..(i - 1) : s[j] # " "
  ELSE 0

\* str::starts_with
StartsWith(s, pre) == Len(s) >= Len(pre) /\ SubSeq(s, 1, Len(pre)) = pre
Contains(s, sub) ==
  \E i \in 0..(Len(s) - Len(sub)) : SubSeq(s, i + 1, i + Len(sub)) = sub

(***************************************************************************)
(* Host-language values handed to the facades (&PyAny) and their str().    *)
(***************************************************************************)
PyStr(s) == [ty |-> "str", s |-> s, n |-> 0, items |-> <<>>]
PyInt(n) == [ty |-> "int", s |-> <<>>, n |-> n, items |-> <<>>]
PyBool(b) == [ty |-> "bool", s |-> <<>>, n |-> IF b THEN 1 ELSE 0, items |-> <<>>]
PyNone == [ty |-> "none", s |-> <<>>, n |-> 0, items |-> <<>>]
\* A list of text items, e.g. ["a"].
PyList(l) == [ty |-> "list", s |-> <<>>, n |-> 0, items |-> l]
\* The keyword argument was not passed at all.
Absent == [ty |-> "absent", s |-> <<>>, n |-> 0, items |-> <<>>]

RECURSIVE JoinRepr(_)
JoinRepr(l) ==
  IF l = <<>> THEN <<>>
  ELSE <<"'">> \o Head(l) \o <<"'">> \o
       (IF Len(l) > 1 THEN <<","," ">> ELSE <<>>) \o JoinRepr(Tail(l))

\* PyAny::to_string(): the host runtime's str() of the value.
PyToString(v) ==
  CASE v.ty = "str" -> v.s
    [] v.ty = "int" -> IntToString(v.n)
    [] v.ty = "bool" -> IF v.n = 1 THEN <<"T","r","u","e">> ELSE <<"F","a","l","s","e">>
    [] v.ty = "none" -> <<"N","o","n","e">>
    [] v.ty = "list" -> <<"[">> \o JoinRepr(v.items) \o <<"]">>

(***************************************************************************)
(* The argument shaper.                                                    *)
(***************************************************************************)
\* A variant of construct_vector that builds the vector back to front.
construct_vector_Reversed(other) ==
  [i \in 1..Len(other) |-> PyToString(other[Len(other) + 1 - i])]

\* construct_vector: every element stringified, in order.
construct_vector(other) == [i \in 1..Len(other) |-> PyToString(other[i])]

\* A variant of nx_x_decider with the suffix NX written into it.
nx_x_decider_FixedSuffix(base, additive, choice) ==
  IF choice.ty = "absent" THEN base
  ELSE LET p == ParseBool(ToAsciiLowercase(PyToString(choice)))
       IN IF p.ok /\ p.val THEN base \o <<"N","X">> ELSE base

\* A variant of nx_x_decider that goes by the host runtime's truthiness.
nx_x_decider_Truthy(base, additive, choice) ==
  IF choice.ty = "absent" THEN base
  ELSE IF (choice.ty \in {"bool", "int"} /\ choice.n # 0)
          \/ (choice.ty = "str" /\ choice.s # <<>>)
       THEN base \o additive ELSE base

\* nx_x_decider: base, plus additive when the no_overwrite option, stringified
\* and lower-cased, parses as the boolean true.
nx_x_decider(base, additive, choice) ==
  IF choice.ty = "absent" THEN base
  ELSE LET p == ParseBool(ToAsciiLowercase(PyToString(choice)))
       IN IF p.ok /\ p.val THEN base \o additive ELSE base

\* Vec::insert(0, x)
InsertFront(x, v) == <<x>> \o v

(***************************************************************************)
(* The command surface: one row per facade of impl RedisClient.            *)
(*   verb     the base command name passed to route_command                *)
(*   additive the suffix handed to nx_x_decider (empty: no decider call)   *)
(*   shape    how the facade lays its parameters out as arguments          *)
(*   rtype    the Rust type the reply is converted to                      *)
(*   lenient  TRUE when the facade ends in unwrap_or_default(), FALSE when *)
(*            it ends in the ? operator                                    *)
(* manual takes its verb from the caller; lelements issues LLEN and then   *)
(* LRANGE (see SecondCmd).                                                 *)
(***************************************************************************)
Row(verb, additive, shape, rtype, lenient) ==
  [verb |-> verb, additive |-> additive, shape |-> shape, rtype |-> rtype,
   lenient |-> lenient]
\* A variant of manual that ends like the lenient facades.
F_manual_Lenient == Row(<<>>, <<>>, "manual", "String", TRUE)
F_manual == Row(<<>>, <<>>, "manual", "String", FALSE)  \* lib.rs:131
F_delete == Row(<<"D","E","L">>, <<>>, "vec", "usize", FALSE)  \* lib.rs:166
F_exists == Row(<<"E","X","I","S","T","S">>, <<>>, "vec", "usize", FALSE)  \* lib.rs:197
F_expire == Row(<<"E","X","P","I","R","E">>, <<>>, "key_num", "u8", FALSE)  \* lib.rs:235
F_expireat == Row(<<"E","X","P","I","R","E","A","T">>, <<>>, "key_num", "u8", FALSE)  \* lib.rs:273
F_keys == Row(<<"K","E","Y","S">>, <<>>, "key", "VecString", FALSE)  \* lib.rs:311
F_move == Row(<<"M","O","V","E">>, <<>>, "key_num", "u8", FALSE)  \* lib.rs:346
F_persist == Row(<<"P","E","R","S","I","S","T">>, <<>>, "key", "i8", FALSE)  \* lib.rs:377
F_pexpire == Row(<<"P","E","X","P","I","R","E">>, <<>>, "key_num", "u8", FALSE)  \* lib.rs:408
F_pexpireat == Row(<<"P","E","X","P","I","R","E","A","T">>, <<>>, "key_num", "i8", FALSE)  \* lib.rs:440
F_pttl == Row(<<"P","T","T","L">>, <<>>, "key", "i64", FALSE)  \* lib.rs:474
F_randomkey == Row(<<"R","A","N","D","O","M","K","E","Y">>, <<>>, "none", "String", TRUE)  \* lib.rs:501
F_rename == Row(<<"R","E","N","A","M","E">>, <<"N","X">>, "key_key", "String", TRUE)  \* lib.rs:538
F_ttl == Row(<<"T","T","L">>, <<>>, "key", "isize", FALSE)  \* lib.rs:572
F_keytype == Row(<<"T","Y","P","E">>, <<>>, "key", "String", FALSE)  \* lib.rs:600
F_unlink == Row(<<"U","N","L","I","N","K">>, <<>>, "vec", "usize", FALSE)  \* lib.rs:635
F_append == Row(<<"A","P","P","E","N","D">>, <<>>, "key_val", "usize", FALSE)  \* lib.rs:669
F_bitcount == Row(<<"B","I","T","C","O","U","N","T">>, <<>>, "key_num_num", "usize", FALSE)  \* lib.rs:704
F_get == Row(<<"G","E","T">>, <<>>, "key", "String", TRUE)  \* lib.rs:736
F_sset == Row(<<"S","E","T">>, <<"N","X">>, "key_val", "String", FALSE)  \* lib.rs:766
F_getset == Row(<<"G","E","T","S","E","T">>, <<>>, "key_val", "String", FALSE)  \* lib.rs:803
F_decr == Row(<<"D","E","C","R">>, <<>>, "key", "i64", FALSE)  \* lib.rs:834
F_decrby == Row(<<"D","E","C","R","B","Y">>, <<>>, "key_num", "isize", FALSE)  \* lib.rs:866
F_incr == Row(<<"I","N","C","R">>, <<>>, "key", "isize", FALSE)  \* lib.rs:899
F_incrby == Row(<<"I","N","C","R","B","Y">>, <<>>, "key_num", "isize", FALSE)  \* lib.rs:931
F_incrbyfloat == Row(<<"I","N","C","R","B","Y","F","L","O","A","T">>, <<>>, "key_float", "String", FALSE)  \* lib.rs:964
F_getrange == Row(<<"G","E","T","R","A","N","G","E">>, <<>>, "key_num_num", "String", FALSE)  \* lib.rs:1004
F_mget == Row(<<"M","G","E","T">>, <<>>, "vec", "VecString", FALSE)  \* lib.rs:1036
F_mset == Row(<<"M","S","E","T">>, <<"N","X">>, "map", "String", FALSE)  \* lib.rs:1070
F_setex == Row(<<"S","E","T","E","X">>, <<>>, "key_num_val", "String", FALSE)  \* lib.rs:1116
F_psetex == Row(<<"P","S","E","T","E","X">>, <<>>, "key_num_val", "String", FALSE)  \* lib.rs:1147
F_setrange == Row(<<"S","E","T","R","A","N","G","E">>, <<>>, "key_val_num", "usize", FALSE)  \* lib.rs:1187
F_strlen == Row(<<"S","T","R","L","E","N">>, <<>>, "key", "usize", FALSE)  \* lib.rs:1212
F_hdel == Row(<<"H","D","E","L">>, <<>>, "key_vec", "usize", FALSE)  \* lib.rs:1239
F_hexists == Row(<<"H","E","X","I","S","T","S">>, <<>>, "key_key", "u8", FALSE)  \* lib.rs:1267
F_hget == Row(<<"H","G","E","T">>, <<>>, "key_key", "String", FALSE)  \* lib.rs:1291
F_hgetall == Row(<<"H","G","E","T","A","L","L">>, <<>>, "key", "VecString", FALSE)  \* lib.rs:1316
F_hincrby == Row(<<"H","I","N","C","R","B","Y">>, <<>>, "key_key_num", "isize", FALSE)  \* lib.rs:1344
F_hincrbyfloat == Row(<<"H","I","N","C","R","B","Y","F","L","O","A","T">>, <<>>, "key_key_float", "f64", FALSE)  \* lib.rs:1378
F_hkeys == Row(<<"H","K","E","Y","S">>, <<>>, "key", "VecString", FALSE)  \* lib.rs:1402
F_hlen == Row(<<"H","L","E","N">>, <<>>, "key", "usize", FALSE)  \* lib.rs:1425
F_hmget == Row(<<"H","M","G","E","T">>, <<>>, "key_vec", "VecString", FALSE)  \* lib.rs:1453
F_hset == Row(<<"H","S","E","T">>, <<"N","X">>, "key_map", "usize", FALSE)  \* lib.rs:1488
F_hstrlen == Row(<<"H","S","T","R","L","E","N">>, <<>>, "key_key", "usize", FALSE)  \* lib.rs:1523
F_hvals == Row(<<"H","V","A","L","S">>, <<>>, "key", "VecString", FALSE)  \* lib.rs:1546
F_rpush == Row(<<"R","P","U","S","H">>, <<"X">>, "key_vec", "usize", FALSE)  \* lib.rs:1580
F_lpush == Row(<<"L","P","U","S","H">>, <<"X">>, "key_vec", "usize", FALSE)  \* lib.rs:1617
F_lindex == Row(<<"L","I","N","D","E","X">>, <<>>, "key_num", "String", FALSE)  \* lib.rs:1647
F_linsert == Row(<<"L","I","N","S","E","R","T">>, <<>>, "key_key", "isize", FALSE)  \* lib.rs:1673
F_llen == Row(<<"L","L","E","N">>, <<>>, "key", "isize", FALSE)  \* lib.rs:1699
F_lpop == Row(<<"L","P","O","P">>, <<>>, "key", "String", FALSE)  \* lib.rs:1722
F_lset == Row(<<"L","S","E","T">>, <<>>, "key_num_val", "String", FALSE)  \* lib.rs:1740
F_lrange == Row(<<"L","R","A","N","G","E">>, <<>>, "key_num_num", "VecString", FALSE)  \* lib.rs:1759
F_lrem == Row(<<"L","R","E","M">>, <<>>, "key_num_vec", "usize", FALSE)  \* lib.rs:1785
F_ltrim == Row(<<"L","T","R","I","M">>, <<>>, "key_num_num", "usize", FALSE)  \* lib.rs:1812
F_rpop == Row(<<"R","P","O","P">>, <<>>, "key", "String", FALSE)  \* lib.rs:1835
F_lelements == Row(<<"L","L","E","N">>, <<>>, "key", "VecString", FALSE)  \* lib.rs:1856
F_rpoplpush == Row(<<"R","P","O","P","L","P","U","S","H">>, <<>>, "key_key", "String", FALSE)  \* lib.rs:1872
F_sadd == Row(<<"S","A","D","D">>, <<>>, "key_vec", "usize", FALSE)  \* lib.rs:1896
F_scard == Row(<<"S","C","A","R","D">>, <<>>, "key", "usize", FALSE)  \* lib.rs:1922
F_sdiff == Row(<<"S","D","I","F","F">>, <<>>, "vec", "VecString", FALSE)  \* lib.rs:1948
F_sdiffstore == Row(<<"S","D","I","F","F","S","T","O","R","E">>, <<>>, "key_vec", "usize", FALSE)  \* lib.rs:1979
F_sinter == Row(<<"S","I","N","T","E","R">>, <<>>, "vec", "VecString", FALSE)  \* lib.rs:2006
F_sinterstore == Row(<<"S","I","N","T","E","R","S","T","O","R","E">>, <<>>, "key_vec", "VecString", FALSE)  \* lib.rs:2034
F_sismember == Row(<<"S","I","S","M","E","M","B","E","R">>, <<>>, "key_val", "u8", FALSE)  \* lib.rs:2065
F_smembers == Row(<<"S","M","E","M","B","E","R","S">>, <<>>, "key", "VecString", FALSE)  \* lib.rs:2089
F_smove == Row(<<"S","M","O","V","E">>, <<>>, "key_key_val", "u8", FALSE)  \* lib.rs:2120

Facades ==
  {"manual", "delete", "exists", "expire", "expireat", "keys",
   "move", "persist", "pexpire", "pexpireat", "pttl", "randomkey",
   "rename", "ttl", "keytype", "unlink", "append", "bitcount",
   "get", "sset", "getset", "decr", "decrby", "incr",
   "incrby", "incrbyfloat", "getrange", "mget", "mset", "setex",
   "psetex", "setrange", "strlen", "hdel", "hexists", "hget",
   "hgetall", "hincrby", "hincrbyfloat", "hkeys", "hlen", "hmget",
   "hset", "hstrlen", "hvals", "rpush", "lpush", "lindex",
   "linsert", "llen", "lpop", "lset", "lrange", "lrem",
   "ltrim", "rpop", "lelements", "rpoplpush", "sadd", "scard",
   "sdiff", "sdiffstore", "sinter", "sinterstore", "sismember", "smembers",
   "smove"}

FacadeTable(f) ==
  CASE f = "manual" -> F_manual
    [] f = "delete" -> F_delete
    [] f = "exists" -> F_exists
    [] f = "expire" -> F_expire
    [] f = "expireat" -> F_expireat
    [] f = "keys" -> F_keys
    [] f = "move" -> F_move
    [] f = "persist" -> F_persist
    [] f = "pexpire" -> F_pexpire
    [] f = "pexpireat" -> F_pexpireat
    [] f = "pttl" -> F_pttl
    [] f = "randomkey" -> F_randomkey
    [] f = "rename" -> F_rename
    [] f = "ttl" -> F_ttl
    [] f = "keytype" -> F_keytype
    [] f = "unlink" -> F_unlink
    [] f = "append" -> F_append
    [] f = "bitcount" -> F_bitcount
    [] f = "get" -> F_get
    [] f = "sset" -> F_sset
    [] f = "getset" -> F_getset
    [] f = "decr" -> F_decr
    [] f = "decrby" -> F_decrby
    [] f = "incr" -> F_incr
    [] f = "incrby" -> F_incrby
    [] f = "incrbyfloat" -> F_incrbyfloat
    [] f = "getrange" -> F_getrange
    [] f = "mget" -> F_mget
    [] f = "mset" -> F_mset
    [] f = "setex" -> F_setex
    [] f = "psetex" -> F_psetex
    [] f = "setrange" -> F_setrange
    [] f = "strlen" -> F_strlen
    [] f = "hdel" -> F_hdel
    [] f = "hexists" -> F_hexists
    [] f = "hget" -> F_hget
    [] f = "hgetall" -> F_hgetall
    [] f = "hincrby" -> F_hincrby
    [] f = "hincrbyfloat" -> F_hincrbyfloat
    [] f = "hkeys" -> F_hkeys
    [] f = "hlen" -> F_hlen
    [] f = "hmget" -> F_hmget
    [] f = "hset" -> F_hset
    [] f = "hstrlen" -> F_hstrlen
    [] f = "hvals" -> F_hvals
    [] f = "rpush" -> F_rpush
    [] f = "lpush" -> F_lpush
    [] f = "lindex" -> F_lindex
    [] f = "linsert" -> F_linsert
    [] f = "llen" -> F_llen
    [] f = "lpop" -> F_lpop
    [] f = "lset" -> F_lset
    [] f = "lrange" -> F_lrange
    [] f = "lrem" -> F_lrem
    [] f = "ltrim" -> F_ltrim
    [] f = "rpop" -> F_rpop
    [] f = "lelements" -> F_lelements
    [] f = "rpoplpush" -> F_rpoplpush
    [] f = "sadd" -> F_sadd
    [] f = "scard" -> F_scard
    [] f = "sdiff" -> F_sdiff
    [] f = "sdiffstore" -> F_sdiffstore
    [] f = "sinter" -> F_sinter
    [] f = "sinterstore" -> F_sinterstore
    [] f = "sismember" -> F_sismember
    [] f = "smembers" -> F_smembers
    [] f = "smove" -> F_smove


IsVariant(f) == FacadeTable(f).additive # <<>>

(***************************************************************************)
(* What callers pass.  Every call carries one record of parameters; a      *)
(* facade reads the fields its signature names and the others keep their   *)
(* defaults.                                                               *)
(***************************************************************************)
Keys == {<<"s">>, <<"1">>}
PyVals == {PyStr(<<"s">>), PyInt(1)}
Nums == {0, 12}
SignedNums == {-1, 12}
\* f64 parameters, as integer part and first decimal digit.
F64(i, d) == [i |-> i, d |-> d]
Floats == {F64(1, 5), F64(2, 0)}
\* Values given for the no_overwrite keyword.
Choices ==
  {Absent, PyBool(TRUE), PyBool(FALSE), PyInt(0), PyInt(1), PyNone,
   PyStr(<<"y","e","s">>), PyStr(<<"t","r","u","e">>), PyStr(<<"T","R","U","E">>)}
\* Verbs given to manual.
ManualCmds == {<<"S","E","T">>, <<"P","I","N","G">>}
MapKeys == {<<"a">>, <<"b">>}

RECURSIVE SeqsUpTo(_, _)
SeqsUpTo(S, n) ==
  IF n = 0 THEN {<<>>}
  ELSE LET shorter == SeqsUpTo(S, n - 1)
       IN shorter \cup {Append(q, x) : q \in {r \in shorter : Len(r) = n - 1}, x \in S}

\* Variadic arguments: plain values, and one call passing a list as an element.
NestedSeqs == {<<PyList(<<<<"s">>>>)>>}
ElemSeqs == SeqsUpTo(PyVals, MaxElems) \cup NestedSeqs
\* HashMap parameters: the mappings from some of MapKeys to values.
Maps == UNION {[D -> PyVals] : D \in SUBSET MapKeys}

\* f64::to_string(): Display prints no fraction for a whole number.
F64ToString(x) ==
  IF x.d = 0 THEN IntToString(x.i) ELSE IntToString(x.i) \o <<".">> \o IntToString(x.d)

NoParams ==
  [cmd |-> <<>>, key |-> <<>>, key2 |-> <<>>, num |-> 0, num2 |-> 0,
   flt |-> F64(0, 0), val |-> PyNone, elems |-> <<>>, map |-> <<>>,
   choice |-> Absent]

\* Facades whose numeric parameters are signed (isize, i64).
SignedArg == {"bitcount", "hincrby", "lindex", "ltrim"}

Shapes(S) == {f \in Facades : FacadeTable(f).shape \in S}
TakesKey == Facades \ Shapes({"manual", "vec", "none", "map"})
TakesKey2 == Shapes({"key_key", "key_key_num", "key_key_float", "key_key_val"})
TakesNum ==
  Shapes({"key_num", "key_num_vec", "key_num_num", "key_num_val", "key_val_num",
          "key_key_num"})
TakesNum2 == Shapes({"key_num_num"})
TakesFloat == Shapes({"key_float", "key_key_float"})
TakesVal == Shapes({"key_val", "key_num_val", "key_val_num", "key_key_val"})
TakesElems == Shapes({"manual", "vec", "key_vec", "key_num_vec"})
TakesMap == Shapes({"map", "key_map"})

Dom(f, takers, values, default) == IF f \in takers THEN values ELSE {default}
NumDom(f) == IF f \in SignedArg THEN SignedNums ELSE Nums

Params(f) ==
  {[cmd |-> c, key |-> k, key2 |-> k2, num |-> n, num2 |-> n2, flt |-> x,
    val |-> v, elems |-> e, map |-> m, choice |-> ch] :
     c \in Dom(f, {"manual"}, ManualCmds, <<>>),
     k \in Dom(f, TakesKey, Keys, <<>>),
     k2 \in Dom(f, TakesKey2, Keys, <<>>),
     n \in Dom(f, TakesNum, NumDom(f), 0),
     n2 \in Dom(f, TakesNum2, NumDom(f), 0),
     x \in Dom(f, TakesFloat, Floats, F64(0, 0)),
     v \in Dom(f, TakesVal, PyVals, PyNone),
     e \in Dom(f, TakesElems, ElemSeqs, <<>>),
     m \in Dom(f, TakesMap, Maps, <<>>),
     ch \in Dom(f, {g \in Facades : IsVariant(g)}, Choices, Absent)}

(***************************************************************************)
(* Argument layout of each facade.                                         *)
(***************************************************************************)
RECURSIVE Orders(_)
\* The orders in which a HashMap over the keys D may be iterated.
Orders(D) ==
  IF D = {} THEN {<<>>}
  ELSE UNION {{<<k>> \o o : o \in Orders(D \ {k})} : k \in D}

\* A flattening that lists every key first and the values after them.
PushPairs_KeysThenValues(m, order) ==
  [i \in 1..(2 * Len(order)) |->
     IF i <= Len(order) THEN order[i] ELSE PyToString(m[order[i - Len(order)]])]

RECURSIVE PushPairs(_, _)
\* for (key, value) in map.iter() { push(key); push(value.to_string()) }
PushPairs(m, order) ==
  IF order = <<>> THEN <<>>
  ELSE <<Head(order), PyToString(m[Head(order)])>> \o PushPairs(m, Tail(order))

\* The argument vectors a facade may hand to route_command for parameters p;
\* more than one only where a HashMap's iteration order decides.
ShapeArgs(f, p) ==
  LET sh == FacadeTable(f).shape
      num == IntToString(p.num)
      num2 == IntToString(p.num2)
      val == PyToString(p.val)
  IN CASE sh = "none" -> {<<>>}
       [] sh = "key" -> {<<p.key>>}
       [] sh \in {"vec", "manual"} -> {construct_vector(p.elems)}
       [] sh = "key_vec" -> {InsertFront(p.key, construct_vector(p.elems))}
       [] sh = "key_num_vec" ->
            {InsertFront(p.key, InsertFront(num, construct_vector(p.elems)))}
       [] sh = "key_num" -> {<<p.key, num>>}
       [] sh = "key_float" -> {<<p.key, F64ToString(p.flt)>>}
       [] sh = "key_val" -> {<<p.key, val>>}
       [] sh = "key_key" -> {<<p.key, p.key2>>}
       [] sh = "key_num_num" -> {<<p.key, num, num2>>}
       [] sh = "key_num_val" -> {<<p.key, num, val>>}
       [] sh = "key_val_num" -> {<<p.key, val, num>>}
       [] sh = "key_key_num" -> {<<p.key, p.key2, num>>}
       [] sh = "key_key_float" -> {<<p.key, p.key2, F64ToString(p.flt)>>}
       [] sh = "key_key_val" -> {<<p.key, p.key2, val>>}
       [] sh = "map" -> {PushPairs(p.map, o) : o \in Orders(DOMAIN p.map)}
       [] sh = "key_map" ->
            {<<p.key>> \o PushPairs(p.map, o) : o \in Orders(DOMAIN p.map)}

\* The command name a facade passes to route_command.
VerbOf(f, p) ==
  IF f = "manual" THEN p.cmd
  ELSE IF IsVariant(f)
       THEN nx_x_decider(FacadeTable(f).verb, FacadeTable(f).additive, p.choice)
       ELSE FacadeTable(f).verb

Cmd(verb, args) == [verb |-> verb, args |-> args]
NoCmd == Cmd(<<>>, <<>>)

\* The first (for all but lelements, the only) command of a facade call.
FirstCmds(f, p) == {Cmd(VerbOf(f, p), a) : a \in ShapeArgs(f, p)}


(***************************************************************************)
(* RESP reply frames and the server the client talks to.  The server is    *)
(* the environment of the program; its replies follow the Redis command    *)
(* reference the facades' documentation cites.                             *)
(***************************************************************************)
Frame(t, n, s, items) == [t |-> t, n |-> n, s |-> s, items |-> items]
FStatus(s) == Frame("status", 0, s, <<>>)
FError(line) == Frame("error", 0, line, <<>>)
FInt(n) == Frame("int", n, <<>>, <<>>)
FData(s) == Frame("data", 0, s, <<>>)
FNil == Frame("nil", 0, <<>>, <<>>)
FArray(items) == Frame("array", 0, <<>>, items)

WrongTypeLine == <<"W","R","O","N","G","T","Y","P","E"," ","O","p","e","r","a","t","i","o","n"," ","a","g","a","i","n","s","t"," ","a"," ","k","e","y"," ","h","o","l","d","i","n","g"," ","t","h","e"," ","w","r","o","n","g"," ","k","i","n","d"," ","o","f"," ","v","a","l","u","e">>
NotIntegerLine == <<"E","R","R"," ","v","a","l","u","e"," ","i","s"," ","n","o","t"," ","a","n"," ","i","n","t","e","g","e","r"," ","o","r"," ","o","u","t"," ","o","f"," ","r","a","n","g","e">>
SyntaxLine == <<"E","R","R"," ","s","y","n","t","a","x"," ","e","r","r","o","r">>
NoAuthLine == <<"N","O","A","U","T","H"," ","A","u","t","h","e","n","t","i","c","a","t","i","o","n"," ","r","e","q","u","i","r","e","d",".">>
LoadingLine == <<"L","O","A","D","I","N","G"," ","R","e","d","i","s"," ","i","s"," ","l","o","a","d","i","n","g"," ","t","h","e"," ","d","a","t","a","s","e","t"," ","i","n"," ","m","e","m","o","r","y">>
ArityLine(verb) ==
  <<"E","R","R"," ","w","r","o","n","g"," ","n","u","m","b","e","r"," ","o","f"," ","a","r","g","u","m","e","n","t","s"," ","f","o","r"," ","'">> \o ToAsciiLowercase(verb) \o <<"'"," ","c","o","m","m","a","n","d">>

\* A key of the keyspace: absent, a string or a list.
VNone == [t |-> "none", s |-> <<>>, l |-> <<>>]
VString(s) == [t |-> "string", s |-> s, l |-> <<>>]
VList(l) == IF l = <<>> THEN VNone ELSE [t |-> "list", s |-> <<>>, l |-> l]

IsDigits(s) == s # <<>> /\ \A i \in 1..Len(s) : \E d \in 1..10 : Digits[d] = s[i]
DigitOf(c) == (CHOOSE d \in 1..10 : Digits[d] = c) - 1
RECURSIVE DigitsVal(_)
DigitsVal(s) ==
  IF s = <<>> THEN 0 ELSE 10 * DigitsVal(SubSeq(s, 1, Len(s) - 1)) + DigitOf(s[Len(s)])
\* Decimal text to integer, as the server and str::parse::<iN> read it.
ParseInt(s) ==
  IF IsDigits(s) THEN [ok |-> TRUE, val |-> DigitsVal(s)]
  ELSE IF Len(s) > 1 /\ s[1] = "-" /\ IsDigits(Tail(s))
       THEN [ok |-> TRUE, val |-> 0 - DigitsVal(Tail(s))]
       ELSE [ok |-> FALSE, val |-> 0]

Holds(st, k) == k \in DOMAIN st /\ st[k].t # "none"
Lookup(st, k) == IF k \in DOMAIN st THEN st[k] ELSE VNone
Put(st, k, v) == [x \in DOMAIN st \cup {k} |-> IF x = k THEN v ELSE st[x]]

RECURSIVE Reverse(_)
Reverse(l) == IF l = <<>> THEN <<>> ELSE Append(Reverse(Tail(l)), Head(l))
RECURSIVE DelAll(_, _)
DelAll(st, ks) ==
  IF ks = <<>> THEN st
  ELSE DelAll(IF Holds(st, Head(ks)) THEN Put(st, Head(ks), VNone) ELSE st, Tail(ks))
RECURSIVE CountHeld(_, _)
CountHeld(st, ks) ==
  IF ks = <<>> THEN 0
  ELSE (IF Holds(st, Head(ks)) THEN 1 ELSE 0) + CountHeld(st, Tail(ks))
RECURSIVE CountDistinctHeld(_, _)
CountDistinctHeld(st, ks) ==
  IF ks = <<>> THEN 0
  ELSE (IF Holds(st, Head(ks)) THEN 1 ELSE 0)
       + CountDistinctHeld(Put(st, Head(ks), VNone), Tail(ks))

\* LRANGE's window over a list of length n, 0-based and inclusive.
RangeOf(l, start, stop) ==
  LET n == Len(l)
      s0 == IF start < 0 THEN n + start ELSE start
      e0 == IF stop < 0 THEN n + stop ELSE stop
      s1 == IF s0 < 0 THEN 0 ELSE s0
      e1 == IF e0 >= n THEN n - 1 ELSE e0
  IN IF s1 > e1 \/ s1 >= n THEN <<>> ELSE SubSeq(l, s1 + 1, e1 + 1)

Out(st, frame) == [store |-> st, frame |-> frame]

SrvSet(st, a) ==
  IF Len(a) < 2 THEN Out(st, FError(ArityLine(<<"S","E","T">>)))
  ELSE IF Len(a) > 2 THEN Out(st, FError(SyntaxLine))
  ELSE Out(Put(st, a[1], VString(a[2])), FStatus(<<"O","K">>))

SrvSetNx(st, a) ==
  IF Len(a) # 2 THEN Out(st, FError(ArityLine(<<"S","E","T","N","X">>)))
  ELSE IF Holds(st, a[1]) THEN Out(st, FInt(0))
  ELSE Out(Put(st, a[1], VString(a[2])), FInt(1))

SrvGet(st, a) ==
  IF Len(a) # 1 THEN Out(st, FError(ArityLine(<<"G","E","T">>)))
  ELSE LET v == Lookup(st, a[1])
       IN CASE v.t = "none" -> Out(st, FNil)
            [] v.t = "string" -> Out(st, FData(v.s))
            [] OTHER -> Out(st, FError(WrongTypeLine))

SrvDel(st, verb, a) ==
  IF Len(a) < 1 THEN Out(st, FError(ArityLine(verb)))
  ELSE Out(DelAll(st, a), FInt(CountDistinctHeld(st, a)))

SrvExists(st, a) ==
  IF Len(a) < 1 THEN Out(st, FError(ArityLine(<<"E","X","I","S","T","S">>)))
  ELSE Out(st, FInt(CountHeld(st, a)))

\* LPUSH, RPUSH and their X variants (onlyIfExists).
SrvPush(st, verb, a, left, onlyIfExists) ==
  IF Len(a) < 2 THEN Out(st, FError(ArityLine(verb)))
  ELSE LET v == Lookup(st, a[1])
           elems == Tail(a)
           l == IF left THEN Reverse(elems) \o v.l ELSE v.l \o elems
       IN CASE v.t = "string" -> Out(st, FError(WrongTypeLine))
            [] v.t = "none" /\ onlyIfExists -> Out(st, FInt(0))
            [] OTHER -> Out(Put(st, a[1], VList(l)), FInt(Len(l)))

SrvLlen(st, a) ==
  IF Len(a) # 1 THEN Out(st, FError(ArityLine(<<"L","L","E","N">>)))
  ELSE LET v == Lookup(st, a[1])
       IN IF v.t = "string" THEN Out(st, FError(WrongTypeLine))
          ELSE Out(st, FInt(Len(v.l)))

SrvLrange(st, a) ==
  IF Len(a) # 3 THEN Out(st, FError(ArityLine(<<"L","R","A","N","G","E">>)))
  ELSE LET v == Lookup(st, a[1])
           b == ParseInt(a[2])
           e == ParseInt(a[3])
       IN IF ~(b.ok /\ e.ok) THEN Out(st, FError(NotIntegerLine))
          ELSE IF v.t = "string" THEN Out(st, FError(WrongTypeLine))
          ELSE LET r == RangeOf(v.l, b.val, e.val)
               IN Out(st, FArray([i \in 1..Len(r) |-> FData(r[i])]))

SrvPop(st, verb, a, left) ==
  IF Len(a) # 1 THEN Out(st, FError(ArityLine(verb)))
  ELSE LET v == Lookup(st, a[1])
       IN CASE v.t = "string" -> Out(st, FError(WrongTypeLine))
            [] v.t = "none" -> Out(st, FNil)
            [] OTHER ->
                 IF left THEN Out(Put(st, a[1], VList(Tail(v.l))), FData(Head(v.l)))
                 ELSE Out(Put(st, a[1], VList(SubSeq(v.l, 1, Len(v.l) - 1))),
                          FData(v.l[Len(v.l)]))

\* LTRIM key start stop: the list keeps the window LRANGE would return.
SrvLtrim(st, a) ==
  IF Len(a) # 3 THEN Out(st, FError(ArityLine(<<"L","T","R","I","M">>)))
  ELSE LET v == Lookup(st, a[1])
           b == ParseInt(a[2])
           e == ParseInt(a[3])
       IN IF ~(b.ok /\ e.ok) THEN Out(st, FError(NotIntegerLine))
          ELSE IF v.t = "string" THEN Out(st, FError(WrongTypeLine))
          ELSE IF v.t = "none" THEN Out(st, FStatus(<<"O","K">>))
          ELSE Out(Put(st, a[1], VList(RangeOf(v.l, b.val, e.val))), FStatus(<<"O","K">>))

\* The list l with element x put before or after the first occurrence of pivot.
InsertAt(l, before, pivot, x) ==
  LET i == CHOOSE j \in 1..Len(l) : l[j] = pivot /\ \A h \in 1..(j - 1) : l[h] # pivot
      cut == IF before THEN i - 1 ELSE i
  IN SubSeq(l, 1, cut) \o <<x>> \o SubSeq(l, cut + 1, Len(l))

\* LINSERT key BEFORE|AFTER pivot element.
SrvLinsert(st, a) ==
  IF Len(a) # 4 THEN Out(st, FError(ArityLine(<<"L","I","N","S","E","R","T">>)))
  ELSE LET v == Lookup(st, a[1])
           where == ToAsciiLowercase(a[2])
       IN IF where \notin {<<"b","e","f","o","r","e">>, <<"a","f","t","e","r">>} THEN Out(st, FError(SyntaxLine))
          ELSE IF v.t = "none" THEN Out(st, FInt(0))
          ELSE IF v.t = "string" THEN Out(st, FError(WrongTypeLine))
          ELSE IF \A j \in 1..Len(v.l) : v.l[j] # a[3] THEN Out(st, FInt(-1))
          ELSE LET l == InsertAt(v.l, where = <<"b","e","f","o","r","e">>, a[3], a[4])
               IN Out(Put(st, a[1], VList(l)), FInt(Len(l)))

NoSuchKeyLine == <<"E","R","R"," ","n","o"," ","s","u","c","h"," ","k","e","y">>
\* RENAME and RENAMENX (onlyIfAbsent): the value moves to the new key.
SrvRename(st, verb, a, onlyIfAbsent) ==
  IF Len(a) # 2 THEN Out(st, FError(ArityLine(verb)))
  ELSE IF ~Holds(st, a[1]) THEN Out(st, FError(NoSuchKeyLine))
  ELSE IF onlyIfAbsent /\ Holds(st, a[2]) THEN Out(st, FInt(0))
  ELSE LET moved == Put(Put(st, a[1], VNone), a[2], st[a[1]])
       IN Out(moved, IF onlyIfAbsent THEN FInt(1) ELSE FStatus(<<"O","K">>))

SrvPing(st, a) ==
  IF Len(a) = 0 THEN Out(st, FStatus(<<"P","O","N","G">>))
  ELSE IF Len(a) = 1 THEN Out(st, FData(a[1]))
  ELSE Out(st, FError(ArityLine(<<"P","I","N","G">>)))

\* Commands whose effect on the keyspace the model follows.
ModelledVerbs ==
  {<<"S","E","T">>, <<"S","E","T","N","X">>, <<"G","E","T">>, <<"D","E","L">>, <<"U","N","L","I","N","K">>, <<"E","X","I","S","T","S">>, <<"L","P","U","S","H">>, <<"R","P","U","S","H">>, <<"L","P","U","S","H","X">>,
   <<"R","P","U","S","H","X">>, <<"L","L","E","N">>, <<"L","R","A","N","G","E">>, <<"L","P","O","P">>, <<"R","P","O","P">>, <<"P","I","N","G">>, <<"R","E","N","A","M","E">>, <<"R","E","N","A","M","E","N","X">>,
   <<"L","T","R","I","M">>, <<"L","I","N","S","E","R","T">>}

\* Replies of the commands the model does not follow: one of each frame type.
OtherFrames ==
  {FStatus(<<"O","K">>), FInt(1), FData(<<"1">>), FNil, FArray(<<FData(<<"1">>), FNil>>),
   FError(WrongTypeLine), FError(NotIntegerLine), FError(SyntaxLine)}

\* Errors a server answers to any command: no authentication, still loading.
AnyCommandErrors == {FError(NoAuthLine), FError(LoadingLine)}

Execute(st, c) ==
  LET v == c.verb
      a == c.args
  IN CASE v = <<"S","E","T">> -> SrvSet(st, a)
       [] v = <<"S","E","T","N","X">> -> SrvSetNx(st, a)
       [] v = <<"G","E","T">> -> SrvGet(st, a)
       [] v \in {<<"D","E","L">>, <<"U","N","L","I","N","K">>} -> SrvDel(st, v, a)
       [] v = <<"E","X","I","S","T","S">> -> SrvExists(st, a)
       [] v = <<"L","P","U","S","H">> -> SrvPush(st, v, a, TRUE, FALSE)
       [] v = <<"R","P","U","S","H">> -> SrvPush(st, v, a, FALSE, FALSE)
       [] v = <<"L","P","U","S","H","X">> -> SrvPush(st, v, a, TRUE, TRUE)
       [] v = <<"R","P","U","S","H","X">> -> SrvPush(st, v, a, FALSE, TRUE)
       [] v = <<"L","L","E","N">> -> SrvLlen(st, a)
       [] v = <<"L","R","A","N","G","E">> -> SrvLrange(st, a)
       [] v = <<"L","P","O","P">> -> SrvPop(st, v, a, TRUE)
       [] v = <<"R","P","O","P">> -> SrvPop(st, v, a, FALSE)
       [] v = <<"P","I","N","G">> -> SrvPing(st, a)
       [] v = <<"R","E","N","A","M","E">> -> SrvRename(st, v, a, FALSE)
       [] v = <<"R","E","N","A","M","E","N","X">> -> SrvRename(st, v, a, TRUE)
       [] v = <<"L","T","R","I","M">> -> SrvLtrim(st, a)
       [] v = <<"L","I","N","S","E","R","T">> -> SrvLinsert(st, a)

\* SINTERSTORE destination key [key ...] over a keyspace that holds no sets: a
\* source that is held is of the wrong kind; with every source missing the
\* intersection is empty, the destination is removed and the reply is 0. When
\* a missing source precedes a held one, servers differ in which they see first.
SrvSinterstore(st, a) ==
  IF Len(a) < 2 THEN {Out(st, FError(ArityLine(<<"S","I","N","T","E","R","S","T","O","R","E">>)))}
  ELSE LET empty == Out(DelAll(st, <<a[1]>>), FInt(0))
           wrong == Out(st, FError(WrongTypeLine))
       IN IF Holds(st, a[2]) THEN {wrong}
          ELSE IF \A i \in 2..Len(a) : ~Holds(st, a[i]) THEN {empty}
          ELSE {empty, wrong}

\* Every (keyspace, reply) the server may produce for command c.
ServerReplies(st, c) ==
  (IF c.verb = <<"S","I","N","T","E","R","S","T","O","R","E">> THEN SrvSinterstore(st, c.args)
   ELSE IF c.verb \in ModelledVerbs THEN {Execute(st, c)}
   ELSE {Out(st, fr) : fr \in OtherFrames})
  \cup {Out(st, fr) : fr \in AnyCommandErrors}


(***************************************************************************)
(* The client library as route_command uses it: parsing a reply frame into *)
(* a value or an error, and converting the value to the requested type.    *)
(***************************************************************************)
RedisError(kind, hasDetail, detail) ==
  [kind |-> kind, hasDetail |-> hasDetail, detail |-> detail]
NoError == RedisError("", FALSE, <<>>)

\* An error line is "<code> <detail>".  The library knows four codes; any
\* other code makes an extension error whose detail is the text after it.
ErrorOfLine(line) ==
  LET sp == FirstSpace(line)
      code == IF sp = 0 THEN line ELSE SubSeq(line, 1, sp - 1)
      hasRest == sp # 0
      rest == IF sp = 0 THEN <<>> ELSE SubSeq(line, sp + 1, Len(line))
  IN CASE code = <<"E","R","R">> -> RedisError("ResponseError", hasRest, rest)
       [] code = <<"E","X","E","C","A","B","O","R","T">> -> RedisError("ExecAbortError", hasRest, rest)
       [] code = <<"L","O","A","D","I","N","G">> -> RedisError("BusyLoadingError", hasRest, rest)
       [] code = <<"N","O","S","C","R","I","P","T">> -> RedisError("NoScriptError", hasRest, rest)
       [] OTHER ->
            RedisError("ExtensionError", TRUE,
                       IF hasRest THEN rest ELSE <<"U","n","k","n","o","w","n"," ","e","x","t","e","n","s","i","o","n"," ","e","r","r","o","r"," ","e","n","c","o","u","n","t","e","r","e","d">>)

\* A transport failure: an error of kind IoError, which carries no detail.
IoFailure == RedisError("IoError", FALSE, <<>>)
InvalidType(detail) == RedisError("TypeError", TRUE, detail)

\* Typed values a facade returns.
Typed(t, s, n, l) == [t |-> t, s |-> s, n |-> n, l |-> l]
TStr(s) == Typed("str", s, 0, <<>>)
TInt(n) == Typed("int", <<>>, n, <<>>)
TList(l) == Typed("list", <<>>, 0, l)
\* An f64, in tenths.
TFloat(tenths) == Typed("float", <<>>, tenths, <<>>)
NoVal == Typed("none", <<>>, 0, <<>>)

Conv(ok, val, err) == [ok |-> ok, val |-> val, err |-> err]
ConvOk(v) == Conv(TRUE, v, NoError)
ConvErr(e) == Conv(FALSE, NoVal, e)

\* `val as T` for the reply integers the facades convert to.
CastInt(n, rtype) ==
  CASE rtype = "u8" -> n % 256
    [] rtype = "i8" -> ((n + 128) % 256) - 128
    [] OTHER -> n

\* The parser turns the status line OK into Value::Okay, any other into
\* Value::Status.
IsOkay(fr) == fr.t = "status" /\ fr.s = <<"O","K">>

\* FromRedisValue for String: Data, Status and Okay ("OK") convert.
\* A variant that takes status replies only.
ToStringValue_StatusOnly(fr) ==
  CASE fr.t = "status" -> ConvOk(TStr(fr.s))
    [] OTHER -> ConvErr(InvalidType(<<"R","e","s","p","o","n","s","e"," ","t","y","p","e"," ","n","o","t"," ","s","t","r","i","n","g"," ","c","o","m","p","a","t","i","b","l","e",".">>))

ToStringValue(fr) ==
  CASE fr.t = "data" -> ConvOk(TStr(fr.s))
    [] fr.t = "status" -> ConvOk(TStr(fr.s))
    [] OTHER -> ConvErr(InvalidType(<<"R","e","s","p","o","n","s","e"," ","t","y","p","e"," ","n","o","t"," ","s","t","r","i","n","g"," ","c","o","m","p","a","t","i","b","l","e",".">>))

\* FromRedisValue for the integer types.
ToIntValue(fr, rtype) ==
  CASE fr.t = "int" -> ConvOk(TInt(CastInt(fr.n, rtype)))
    [] fr.t \in {"data", "status"} /\ ~IsOkay(fr) ->
         LET p == ParseInt(fr.s)
         IN IF p.ok THEN ConvOk(TInt(p.val))
            ELSE ConvErr(InvalidType(<<"C","o","u","l","d"," ","n","o","t"," ","c","o","n","v","e","r","t"," ","f","r","o","m"," ","s","t","r","i","n","g",".">>))
    [] OTHER -> ConvErr(InvalidType(<<"R","e","s","p","o","n","s","e"," ","t","y","p","e"," ","n","o","t"," ","c","o","n","v","e","r","t","i","b","l","e"," ","t","o"," ","n","u","m","e","r","i","c",".">>))

\* FromRedisValue for f64, for replies written as digits or digits.digit.
ToFloatValue(fr) ==
  CASE fr.t = "int" -> ConvOk(TFloat(10 * fr.n))
    [] fr.t \in {"data", "status"} /\ ~IsOkay(fr) ->
         LET s == fr.s
             dot == IF \E i \in 1..Len(s) : s[i] = "."
                    THEN CHOOSE i \in 1..Len(s) : s[i] = "." ELSE 0
         IN IF IsDigits(s) THEN ConvOk(TFloat(10 * DigitsVal(s)))
            ELSE IF dot > 1 /\ dot = Len(s) - 1 /\ IsDigits(SubSeq(s, 1, dot - 1))
                    /\ IsDigits(<<s[Len(s)]>>)
                 THEN ConvOk(TFloat(10 * DigitsVal(SubSeq(s, 1, dot - 1))
                                    + DigitOf(s[Len(s)])))
                 ELSE ConvErr(InvalidType(<<"C","o","u","l","d"," ","n","o","t"," ","c","o","n","v","e","r","t"," ","f","r","o","m"," ","s","t","r","i","n","g",".">>))
    [] OTHER -> ConvErr(InvalidType(<<"R","e","s","p","o","n","s","e"," ","t","y","p","e"," ","n","o","t"," ","c","o","n","v","e","r","t","i","b","l","e"," ","t","o"," ","n","u","m","e","r","i","c",".">>))

\* FromRedisValue for Vec<String>: every item converted, the first failure wins.
ToVecValue(fr) ==
  CASE fr.t = "array" ->
         LET conv == [i \in 1..Len(fr.items) |-> ToStringValue(fr.items[i])]
         IN IF \A i \in 1..Len(conv) : conv[i].ok
            THEN ConvOk(TList([i \in 1..Len(conv) |-> conv[i].val.s]))
            ELSE conv[CHOOSE i \in 1..Len(conv) :
                        ~conv[i].ok /\ \A j \in 1..(i - 1) : conv[j].ok]
    [] fr.t = "nil" -> ConvOk(TList(<<>>))
    [] OTHER -> ConvErr(InvalidType(<<"R","e","s","p","o","n","s","e"," ","t","y","p","e"," ","n","o","t"," ","v","e","c","t","o","r"," ","c","o","m","p","a","t","i","b","l","e",".">>))

\* Cmd::query: an error frame is the error; any other frame is converted.
Query(fr, rtype) ==
  IF fr.t = "error" THEN ConvErr(ErrorOfLine(fr.s))
  ELSE CASE rtype = "String" -> ToStringValue(fr)
         [] rtype = "VecString" -> ToVecValue(fr)
         [] rtype = "f64" -> ToFloatValue(fr)
         [] OTHER -> ToIntValue(fr, rtype)

(***************************************************************************)
(* The dispatcher and the facades' last line.                              *)
(***************************************************************************)
PyResult(ok, val, exc, msg, kind) ==
  [ok |-> ok, val |-> val, exc |-> exc, msg |-> msg, kind |-> kind]
NoResult == PyResult(FALSE, NoVal, "", <<>>, "")

\* A variant of the match whose TypeError arm is missing.
ExceptionOf_TypeErrorAsGeneric(kind) ==
  CASE kind = "ExtensionError" -> "TypeError"
    [] kind = "IoError" -> "IOError"
    [] OTHER -> "Exception"

\* A variant of the match without its ExtensionError arm.
ExceptionOf_NoExtensionArm(kind) ==
  CASE kind = "TypeError" -> "TypeError"
    [] kind = "IoError" -> "IOError"
    [] OTHER -> "Exception"

\* A variant of the match without its IoError arm.
ExceptionOf_NoIoArm(kind) ==
  CASE kind = "ExtensionError" -> "TypeError"
    [] kind = "TypeError" -> "TypeError"
    [] OTHER -> "Exception"

\* The match on v.kind() in route_command.
ExceptionOf(kind) ==
  CASE kind = "ExtensionError" -> "TypeError"
    [] kind = "TypeError" -> "TypeError"
    [] kind = "IoError" -> "IOError"
    [] OTHER -> "Exception"

\* A variant that never uses the error's detail.
DetailOf_Dropped(e) == <<"U","n","k","n","o","w","n"," ","e","x","c","e","p","t","i","o","n","!">>

\* v.detail().unwrap_or_else(|| "Unknown exception!")
DetailOf(e) == IF e.hasDetail THEN e.detail ELSE <<"U","n","k","n","o","w","n"," ","e","x","c","e","p","t","i","o","n","!">>

\* route_command, given what the query returned.
route_command(q) ==
  IF q.ok THEN PyResult(TRUE, q.val, "", <<>>, "")
  ELSE PyResult(FALSE, NoVal, ExceptionOf(q.err.kind), DetailOf(q.err), q.err.kind)

\* Default::default() of the facade's return type.
DefaultOf(rtype) ==
  CASE rtype = "String" -> TStr(<<>>)
    [] rtype = "VecString" -> TList(<<>>)
    [] rtype = "f64" -> TFloat(0)
    [] OTHER -> TInt(0)

\* What the caller gets: a value, or a raised exception with its message.
Outcome(raised, val, exc, msg) == [raised |-> raised, val |-> val, exc |-> exc, msg |-> msg]
NoOutcome == Outcome(FALSE, NoVal, "", <<>>)

\* A variant of the strict ending that swallows the error.
Strict_Swallows(r) ==
  IF r.ok THEN Outcome(FALSE, r.val, "", <<>>) ELSE Outcome(FALSE, TInt(0), "", <<>>)

\* A variant of the lenient ending that propagates the error.
Lenient_Propagates(r, rtype) ==
  IF r.ok THEN Outcome(FALSE, r.val, "", <<>>) ELSE Outcome(TRUE, NoVal, r.exc, r.msg)

\* Ok(route_command(..)?) propagates the error.
Strict(r) ==
  IF r.ok THEN Outcome(FALSE, r.val, "", <<>>) ELSE Outcome(TRUE, NoVal, r.exc, r.msg)
\* Ok(route_command(..).unwrap_or_default()) replaces it by the default.
Lenient(r, rtype) ==
  IF r.ok THEN Outcome(FALSE, r.val, "", <<>>) ELSE Outcome(FALSE, DefaultOf(rtype), "", <<>>)

FacadeOutcome(f, r) ==
  IF FacadeTable(f).lenient THEN Lenient(r, FacadeTable(f).rtype) ELSE Strict(r)

\* The type route_command converts the reply of the call's stage-th command to.
RType(f, stage) ==
  IF f = "lelements" /\ stage = 1 THEN FacadeTable("llen").rtype
  ELSE FacadeTable(f).rtype

\* A variant that asks for one element less than the length.
SecondCmd_OneShort(c, len) ==
  Cmd(<<"L","R","A","N","G","E">>, <<c.args[1], <<"0">>, IntToString(IF len > 1 THEN len - 2 ELSE 0)>>)

\* lelements: LRANGE key 0 <the length llen returned>.
SecondCmd(c, len) == Cmd(<<"L","R","A","N","G","E">>, <<c.args[1], <<"0">>, IntToString(len)>>)


(***************************************************************************)
(* Construction: RedisClient::__new__ and the library calls it makes.      *)
(***************************************************************************)
\* Highest database index the server has.
MaxDb == 1

\* A variant that prefixes every input.
protected_url_AlwaysPrefixed(u) == <<"r","e","d","i","s",":","/","/">> \o u

\* let protected_url = if url.starts_with("redis://") { .. } else { format!(..) }
protected_url(u) == IF StartsWith(u, <<"r","e","d","i","s",":","/","/">>) THEN u ELSE <<"r","e","d","i","s",":","/","/">> \o u

\* URLs callers construct a client with.
UrlPrefixes == {<<>>, <<"r","e","d","i","s",":","/","/">>, <<"r","e","d","i","s",":","/">>, <<"R","E","D","I","S",":","/","/">>, <<"h","t","t","p",":","/","/">>}
UrlRests == {<<"h">>, <<"h","/","0">>, <<"h","/","1">>, <<"h","/","7">>, <<"h","/","x">>, <<"h",":","6","3","7","9","/","1">>, <<"h",":","p">>, <<>>}
Urls == {pre \o rest : pre \in UrlPrefixes, rest \in UrlRests}
DefaultUrl == <<"r","e","d","i","s",":","/","/","h">>

\* Position of the first character c of s, 0 when there is none.
IndexOf(s, c) ==
  IF \E i \in 1..Len(s) : s[i] = c
  THEN CHOOSE i \in 1..Len(s) : s[i] = c /\ \A j \in 1..(i - 1) : s[j] # c
  ELSE 0

RECURSIVE TrimSlashes(_)
\* str::trim_matches('/')
TrimSlashes(s) ==
  IF s # <<>> /\ Head(s) = "/" THEN TrimSlashes(Tail(s))
  ELSE IF s # <<>> /\ s[Len(s)] = "/" THEN TrimSlashes(SubSeq(s, 1, Len(s) - 1))
  ELSE s

ConnInfo(ok, dbi) == [ok |-> ok, db |-> dbi]
\* Client::open on a redis:// URL: host, optional port, database from the path.
ParseRedisUrl(u) ==
  IF ~StartsWith(u, <<"r","e","d","i","s",":","/","/">>) THEN ConnInfo(FALSE, 0)
  ELSE LET rest == SubSeq(u, 9, Len(u))
           slash == IndexOf(rest, "/")
           authority == IF slash = 0 THEN rest ELSE SubSeq(rest, 1, slash - 1)
           path == IF slash = 0 THEN <<>> ELSE SubSeq(rest, slash, Len(rest))
           colon == IndexOf(authority, ":")
           host == IF colon = 0 THEN authority ELSE SubSeq(authority, 1, colon - 1)
           port == IF colon = 0 THEN <<>> ELSE SubSeq(authority, colon + 1, Len(authority))
           dbtext == TrimSlashes(path)
       IN IF host = <<>> \/ ~(port = <<>> \/ IsDigits(port)) THEN ConnInfo(FALSE, 0)
          ELSE IF dbtext = <<>> THEN ConnInfo(TRUE, 0)
          ELSE IF ParseInt(dbtext).ok THEN ConnInfo(TRUE, ParseInt(dbtext).val)
          ELSE ConnInfo(FALSE, 0)

\* What a failed .expect(..) becomes for the caller: the panic unwinds into
\* the interpreter, which the binding layer turns into a PanicException or
\* which ends the process, depending on the build.
PanicOutcomes == {"PanicException", "abort"}

\* The constructor call: its argument, its local protected_url, where it is
\* and how it ended.
CtorCall(pc, arg, protected, out, conn) ==
  [pc |-> pc, arg |-> arg, protected |-> protected, out |-> out, conn |-> conn]
Constructed(u) == CtorCall("built", u, protected_url(u), "instance", TRUE)

OutOfRangeLine == <<"E","R","R"," ","D","B"," ","i","n","d","e","x"," ","i","s"," ","o","u","t"," ","o","f"," ","r","a","n","g","e">>
\* SELECT index, as the server answers it for a connection on database sel.
SrvSelect(sel, a) ==
  IF Len(a) # 1 THEN [selected |-> sel, frame |-> FError(ArityLine(<<"S","E","L","E","C","T">>))]
  ELSE LET n == ParseInt(a[1])
       IN IF ~n.ok THEN [selected |-> sel, frame |-> FError(NotIntegerLine)]
          ELSE IF n.val < 0 \/ n.val > MaxDb
               THEN [selected |-> sel, frame |-> FError(OutOfRangeLine)]
               ELSE [selected |-> n.val, frame |-> FStatus(<<"O","K">>)]


(***************************************************************************)
(* State.                                                                  *)
(*   store    the server's keyspace                                        *)
(*   sock     the client's stream: "up", or "down" after a transport       *)
(*            failure                                                      *)
(*   borrow   the thread holding the instance's &mut borrow, 0 when free   *)
(*   call     per thread, the facade call it is in                         *)
(*   outWire  commands written and not yet executed by the server          *)
(*   inWire   replies sent and not yet read by the client                  *)
(*   ioFailed a route_command of this client has returned an IoError       *)
(*   url, db  the attributes of the RedisClient                            *)
(*   selected the database the server has the client's connection on       *)
(*   ctor     the call of the constructor                                  *)
(* A call records in sent the commands it has handed to the stream.        *)
(***************************************************************************)
NoFrame == Frame("none", 0, <<>>, <<>>)
NoSent == [by |-> 0, cmd |-> NoCmd]

IdleCall ==
  [pc |-> "idle", f |-> "", p |-> NoParams, cmd |-> NoCmd, stage |-> 0,
   afterFail |-> FALSE, touched |-> FALSE, answered |-> NoSent,
   frame |-> NoFrame, res |-> NoResult, out |-> NoOutcome, sent |-> <<>>]

\* Keys the callers store data under, and the facades further threads call.
StoredKeys == {<<"s">>}
OtherThreadFacades == {"get", "llen"}

CallDom(t) == IF t = 1 THEN Facades ELSE OtherThreadFacades

PushVerbs == {<<"L","P","U","S","H">>, <<"R","P","U","S","H">>, <<"L","P","U","S","H","X">>, <<"R","P","U","S","H","X">>}
\* The caller keeps the stored data small: it writes under StoredKeys, while
\* no other key holds data, and keeps lists short and of plain elements.
WithinBounds(st, c) ==
  /\ c.verb \in PushVerbs \cup {<<"S","E","T">>, <<"S","E","T","N","X">>} /\ c.args # <<>>
       => /\ c.args[1] \in StoredKeys
          /\ \A k \in Keys \ {c.args[1]} : ~Holds(st, k)
  /\ c.verb \in PushVerbs /\ c.args # <<>>
       => /\ Len(Lookup(st, c.args[1]).l) + Len(c.args) - 1 <= MaxList
          /\ \A i \in 2..Len(c.args) : c.args[i] \in Keys

\* A variant without the exclusive borrow.
CanBorrow_Unchecked(t) == TRUE

\* A method taking &mut self runs only while no other call holds the instance.
CanBorrow(t) == borrow = 0

Init ==
  /\ store = [k \in Keys |-> VNone]
  /\ sock = "up"
  /\ borrow = 0
  /\ call = [t \in Threads |-> IdleCall]
  /\ outWire = <<>>
  /\ inWire = <<>>
  /\ ioFailed = FALSE
  /\ ctor = Constructed(DefaultUrl)
  /\ url = DefaultUrl
  /\ db = 0
  /\ selected = 0

\* A thread enters a facade: the parameters are shaped into the command.
Call(t) ==
  /\ call[t].pc = "idle"
  /\ CanBorrow(t)
  /\ \E f \in CallDom(t) : \E p \in Params(f) : \E c \in FirstCmds(f, p) :
       /\ WithinBounds(store, c)
       /\ call' = [call EXCEPT ![t] =
                     [IdleCall EXCEPT !.pc = "write", !.f = f, !.p = p, !.cmd = c,
                                      !.stage = 1, !.afterFail = ioFailed]]
  /\ borrow' = t
  /\ UNCHANGED <<store, sock, outWire, inWire, ioFailed>>
  /\ UNCHANGED clientVars

\* A variant that sends a failed command once more.
Returned_RetriesOnError(c, r, answered, fr) ==
  IF (c.f = "lelements" /\ c.stage = 1 /\ r.ok) \/ (~r.ok /\ Len(c.sent) < 2)
  THEN [c EXCEPT !.pc = "write", !.stage = IF r.ok THEN 2 ELSE @,
                 !.cmd = IF r.ok THEN SecondCmd(c.cmd, r.val.n) ELSE @,
                 !.p = NoParams, !.touched = TRUE, !.answered = answered, !.frame = fr]
  ELSE [c EXCEPT !.pc = "done", !.p = NoParams, !.touched = TRUE,
                 !.answered = answered, !.frame = fr, !.res = r,
                 !.out = FacadeOutcome(c.f, r)]

\* Facades whose numeric parameters are usize, and the negative numbers a
\* caller may pass for them.
UnsignedArg == TakesNum \ SignedArg
NegNums == {-1}
BadNumParams(f) ==
  {[NoParams EXCEPT !.key = k, !.num = n, !.num2 = n2] :
     k \in Keys, n \in Nums \cup NegNums,
     n2 \in IF f \in TakesNum2 THEN Nums \cup NegNums ELSE {0}}
  \ Params(f)

\* The generated wrapper extracts the arguments: a usize parameter takes no
\* negative int.
Extracts(f, p) ==
  f \in UnsignedArg => p.num >= 0 /\ (f \in TakesNum2 => p.num2 >= 0)

\* A thread calls a facade with a negative number for a usize parameter: the
\* wrapper raises OverflowError and the facade's body does not run.
Reject(t) ==
  /\ call[t].pc = "idle"
  /\ CanBorrow(t)
  /\ \E f \in CallDom(t) \cap UnsignedArg : \E p \in BadNumParams(f) :
       /\ ~Extracts(f, p)
       /\ call' = [call EXCEPT ![t] =
                     [IdleCall EXCEPT !.pc = "rejected", !.f = f, !.p = p,
                        !.out = Outcome(TRUE, NoVal, "OverflowError",
                                        <<"c","a","n","'","t"," ","c","o","n","v","e","r","t"," ","n","e","g","a","t","i","v","e"," ","i","n","t"," ","t","o"," ","u","n","s","i","g","n","e","d">>)]]
  /\ borrow' = t
  /\ UNCHANGED <<store, sock, outWire, inWire, ioFailed>>
  /\ UNCHANGED clientVars

\* The call's state once route_command has returned r for the current command.
Returned(c, r, answered, fr) ==
  IF c.f = "lelements" /\ c.stage = 1 /\ r.ok
  THEN [c EXCEPT !.pc = "write", !.stage = 2, !.cmd = SecondCmd(c.cmd, r.val.n),
                 !.p = NoParams, !.touched = TRUE, !.answered = answered, !.frame = fr]
  ELSE [c EXCEPT !.pc = "done", !.p = NoParams, !.touched = TRUE,
                 !.answered = answered, !.frame = fr, !.res = r,
                 !.out = FacadeOutcome(c.f, r)]

(***************************************************************************)
(* The command on the wire: an array of bulk strings.                      *)
(***************************************************************************)
CRLF == <<"\r", "\n">>

\* One bulk string: $<length> CRLF <payload> CRLF.
Bulk(x) == <<"$">> \o DecNat(Len(x)) \o CRLF \o x \o CRLF

RECURSIVE Bulks(_)
Bulks(xs) == IF xs = <<>> THEN <<>> ELSE Bulk(Head(xs)) \o Bulks(Tail(xs))

\* A variant whose array header counts the arguments and not the verb.
Pack_CountsArgsOnly(c) ==
  <<"*">> \o DecNat(Len(c.args)) \o CRLF \o Bulks(<<c.verb>> \o c.args)

\* redis::cmd(cmd) with arg(args), as query packs it: *<count> CRLF, then the
\* verb and every argument as a bulk string.
Pack(c) ==
  <<"*">> \o DecNat(1 + Len(c.args)) \o CRLF \o Bulks(<<c.verb>> \o c.args)

\* Position of the first CRLF of b, or 0.
CrlfAt(b) ==
  IF \E i \in 1..(Len(b) - 1) : b[i] = "\r" /\ b[i + 1] = "\n"
  THEN CHOOSE i \in 1..(Len(b) - 1) :
         /\ b[i] = "\r" /\ b[i + 1] = "\n"
         /\ \A j \in 1..(i - 1) : ~(b[j] = "\r" /\ b[j + 1] = "\n")
  ELSE 0

\* A header line <tag><digits> CRLF at the front of b.
Header(b, tag) ==
  LET e == CrlfAt(b)
  IN IF e > 1 /\ b[1] = tag /\ IsDigits(SubSeq(b, 2, e - 1))
     THEN [ok |-> TRUE, n |-> DigitsVal(SubSeq(b, 2, e - 1)),
           rest |-> SubSeq(b, e + 2, Len(b))]
     ELSE [ok |-> FALSE, n |-> 0, rest |-> <<>>]

RECURSIVE ReadBulks(_, _)
\* The server reads k bulk strings, each by its declared length.
ReadBulks(b, k) ==
  IF k = 0 THEN [ok |-> TRUE, items |-> <<>>, rest |-> b]
  ELSE LET h == Header(b, "$")
       IN IF ~h.ok \/ Len(h.rest) < h.n + 2 \/ SubSeq(h.rest, h.n + 1, h.n + 2) # CRLF
          THEN [ok |-> FALSE, items |-> <<>>, rest |-> <<>>]
          ELSE LET more == ReadBulks(SubSeq(h.rest, h.n + 3, Len(h.rest)), k - 1)
               IN [ok |-> more.ok, items |-> <<SubSeq(h.rest, 1, h.n)>> \o more.items,
                   rest |-> more.rest]

\* The command the server reads from the bytes b; no command if b is malformed.
Unpack(b) ==
  LET h == Header(b, "*")
      r == ReadBulks(h.rest, h.n)
  IN IF h.ok /\ h.n >= 1 /\ r.ok /\ r.rest = <<>>
     THEN Cmd(r.items[1], Tail(r.items))
     ELSE NoCmd

\* route_command writes the command to the stream.
Write(t) ==
  /\ call[t].pc = "write"
  /\ sock = "up"
  /\ outWire' = Append(outWire, [by |-> t, cmd |-> call[t].cmd])
  /\ call' = [call EXCEPT ![t].pc = "read", ![t].p = NoParams, ![t].touched = TRUE,
                           ![t].sent = Append(@, call[t].cmd)]
  /\ UNCHANGED <<store, sock, borrow, inWire, ioFailed>>
  /\ UNCHANGED clientVars

\* The write fails on a stream that is down.
WriteFail(t) ==
  /\ call[t].pc = "write"
  /\ sock = "down"
  /\ call' = [call EXCEPT ![t] =
                Returned([call[t] EXCEPT !.sent = Append(@, call[t].cmd)],
                         route_command(ConvErr(IoFailure)), NoSent, NoFrame)]
  /\ ioFailed' = TRUE
  /\ UNCHANGED <<store, sock, borrow, outWire, inWire>>
  /\ UNCHANGED clientVars

\* The server executes the oldest command it was sent and replies.
ServerExec ==
  /\ sock = "up"
  /\ outWire # <<>>
  /\ \E o \in ServerReplies(store, Unpack(Pack(Head(outWire).cmd))) :
       /\ store' = o.store
       /\ inWire' = Append(inWire, [to |-> Head(outWire), frame |-> o.frame])
  /\ outWire' = Tail(outWire)
  /\ UNCHANGED <<sock, borrow, call, ioFailed>>
  /\ UNCHANGED clientVars

\* route_command reads the oldest reply and converts it.
Read(t) ==
  /\ call[t].pc = "read"
  /\ sock = "up"
  /\ inWire # <<>>
  /\ LET m == Head(inWire)
         r == route_command(Query(m.frame, RType(call[t].f, call[t].stage)))
     IN call' = [call EXCEPT ![t] = Returned(call[t], r, m.to, m.frame)]
  /\ inWire' = Tail(inWire)
  /\ UNCHANGED <<store, sock, borrow, outWire, ioFailed>>
  /\ UNCHANGED clientVars

\* The read fails on a stream that is down.
ReadFail(t) ==
  /\ call[t].pc = "read"
  /\ sock = "down"
  /\ call' = [call EXCEPT ![t] =
                Returned(call[t], route_command(ConvErr(IoFailure)), NoSent, NoFrame)]
  /\ ioFailed' = TRUE
  /\ UNCHANGED <<store, sock, borrow, outWire, inWire>>
  /\ UNCHANGED clientVars

\* The facade returns to its caller and the borrow ends.
Return(t) ==
  /\ call[t].pc \in {"done", "rejected"}
  /\ call' = [call EXCEPT ![t] = IdleCall]
  /\ borrow' = IF borrow = t THEN 0 ELSE borrow
  /\ UNCHANGED <<store, sock, outWire, inWire, ioFailed>>
  /\ UNCHANGED clientVars

\* The transport fails: whatever was in flight is lost.
SockFail ==
  /\ sock = "up"
  /\ sock' = "down"
  /\ outWire' = <<>>
  /\ inWire' = <<>>
  /\ UNCHANGED <<store, borrow, call, ioFailed>>
  /\ UNCHANGED clientVars

Next ==
  \/ \E t \in Threads : Call(t)
  \/ \E t \in Threads : Reject(t)
  \/ \E t \in Threads : Write(t)
  \/ \E t \in Threads : WriteFail(t)
  \/ ServerExec
  \/ \E t \in Threads : Read(t)
  \/ \E t \in Threads : ReadFail(t)
  \/ \E t \in Threads : Return(t)
  \/ SockFail

Spec == Init /\ [][Next]_vars

(***************************************************************************)
(* A second client of the same server, on a connection of its own.  It is  *)
(* followed where it can come between the two commands of lelements: after *)
(* LLEN was answered and before LRANGE is executed.                        *)
(***************************************************************************)
\* The call of thread t has its LLEN answered and its LRANGE not yet executed.
BetweenLlenAndLrange(t) ==
  /\ call[t].f = "lelements" /\ call[t].stage = 2
  /\ \/ call[t].pc = "write"
     \/ call[t].pc = "read" /\ outWire # <<>>

\* The other client pushes x onto the list lelements is reading.
OtherClientPush(x, left) ==
  /\ sock = "up"
  /\ \E t \in Threads :
       /\ BetweenLlenAndLrange(t)
       /\ LET c == Cmd(IF left THEN <<"L","P","U","S","H">> ELSE <<"R","P","U","S","H">>, <<call[t].cmd.args[1], x>>)
          IN /\ WithinBounds(store, c)
             /\ Lookup(store, c.args[1]).t # "string"
             /\ store' = SrvPush(store, c.verb, c.args, left, FALSE).store
  /\ UNCHANGED <<sock, borrow, call, outWire, inWire, ioFailed>>
  /\ UNCHANGED clientVars

\* The other client pops an element off the list lelements is reading.
OtherClientPop(left) ==
  /\ sock = "up"
  /\ \E t \in Threads :
       /\ BetweenLlenAndLrange(t)
       /\ Lookup(store, call[t].cmd.args[1]).t = "list"
       /\ store' = SrvPop(store, IF left THEN <<"L","P","O","P">> ELSE <<"R","P","O","P">>,
                          <<call[t].cmd.args[1]>>, left).store
  /\ UNCHANGED <<sock, borrow, call, outWire, inWire, ioFailed>>
  /\ UNCHANGED clientVars

NextShared ==
  \/ Next
  \/ \E x \in Keys, left \in BOOLEAN : OtherClientPush(x, left)
  \/ \E left \in BOOLEAN : OtherClientPop(left)

SpecShared == Init /\ [][NextShared]_vars

(***************************************************************************)
(* The life of a client from its construction: __new__, then calls of      *)
(* manual("SELECT", n) on the instance.                                    *)
(***************************************************************************)
InitNew ==
  /\ store = [k \in Keys |-> VNone]
  /\ sock = "up"
  /\ borrow = 0
  /\ call = [t \in Threads |-> IdleCall]
  /\ outWire = <<>>
  /\ inWire = <<>>
  /\ ioFailed = FALSE
  /\ \E u \in Urls : ctor = CtorCall("start", u, <<>>, "", FALSE)
  /\ url = <<>>
  /\ db = 0
  /\ selected = 0

\* protected_url is computed and Client::open(protected_url).expect(..) runs.
Open ==
  /\ ctor.pc = "start"
  /\ LET pu == protected_url(ctor.arg)
     IN IF ParseRedisUrl(pu).ok
        THEN ctor' = [ctor EXCEPT !.pc = "opened", !.protected = pu]
        ELSE \E o \in PanicOutcomes :
               ctor' = [ctor EXCEPT !.pc = "failed", !.protected = pu, !.out = o]
  /\ UNCHANGED <<url, db, selected>>
  /\ UNCHANGED wireVars

\* client.get_connection().expect(..) connects and selects the URL's database;
\* then the instance is built from connection.get_db() and url.
Connect ==
  /\ ctor.pc = "opened"
  /\ LET info == ParseRedisUrl(ctor.protected)
         hello == IF info.db = 0 THEN [selected |-> 0, frame |-> FStatus(<<"O","K">>)]
                  ELSE SrvSelect(0, <<IntToString(info.db)>>)
     IN \/ /\ hello.frame = FStatus(<<"O","K">>)
           /\ ctor' = [ctor EXCEPT !.pc = "built", !.out = "instance", !.conn = TRUE]
           /\ url' = ctor.arg
           /\ db' = info.db
           /\ selected' = hello.selected
        \/ /\ hello.frame # FStatus(<<"O","K">>)
           /\ \E o \in PanicOutcomes : ctor' = [ctor EXCEPT !.pc = "failed", !.out = o]
           /\ UNCHANGED <<url, db, selected>>
  /\ UNCHANGED wireVars

\* The server cannot be reached: get_connection() returns an IoError.
ConnectFail ==
  /\ ctor.pc = "opened"
  /\ \E o \in PanicOutcomes : ctor' = [ctor EXCEPT !.pc = "failed", !.out = o]
  /\ UNCHANGED <<url, db, selected>>
  /\ UNCHANGED wireVars

\* manual("SELECT", n) on the built instance, from the call to its return.
Select ==
  /\ ctor.pc = "built"
  /\ \E n \in 0..(MaxDb + 1) :
       \E c \in FirstCmds("manual", [NoParams EXCEPT !.cmd = <<"S","E","L","E","C","T">>, !.elems = <<PyInt(n)>>]) :
         LET o == SrvSelect(selected, c.args)
             r == route_command(Query(o.frame, RType("manual", 1)))
         IN /\ selected' = o.selected
            /\ call' = [call EXCEPT ![1] =
                          [IdleCall EXCEPT !.pc = "done", !.f = "manual", !.cmd = c,
                             !.stage = 1, !.touched = TRUE, !.sent = <<c>>,
                             !.answered = [by |-> 1, cmd |-> c], !.frame = o.frame,
                             !.res = r, !.out = FacadeOutcome("manual", r)]]
  /\ UNCHANGED <<store, sock, borrow, outWire, inWire, ioFailed, url, db, ctor>>

NextNew ==
  \/ Open
  \/ Connect
  \/ ConnectFail
  \/ Select

SpecNew == InitNew /\ [][NextNew]_vars



(***************************************************************************)
(* Properties.                                                             *)
(***************************************************************************)
\* The call of thread t has shaped its command and still holds its parameters.
Shaped(t) == call[t].pc = "write" /\ call[t].stage = 1
\* The facade call of thread t has its outcome.
Done(t) == call[t].pc = "done"
\* The call of thread t read a reply of the server.
Answered(t) == call[t].answered # NoSent
\* The text after the first space of an error line.
AfterCode(line) == SubSeq(line, FirstSpace(line) + 1, Len(line))
LenientFacades == {"get", "randomkey", "rename"}

SuffixedVerb ==
  [sset |-> <<"S","E","T","N","X">>, mset |-> <<"M","S","E","T","N","X">>, hset |-> <<"H","S","E","T","N","X">>, rename |-> <<"R","E","N","A","M","E","N","X">>,
   lpush |-> <<"L","P","U","S","H","X">>, rpush |-> <<"R","P","U","S","H","X">>]

\* C1: a call of set (sset), mset, hset, rename, lpush or rpush with
\* no_overwrite=True hands the dispatcher the verb SETNX, MSETNX, HSETNX,
\* RENAMENX, LPUSHX or RPUSHX respectively, and no other.
C1_NoOverwriteTrueSendsSuffixedVerb ==
  \A t \in Threads : \A f \in DOMAIN SuffixedVerb :
    Shaped(t) /\ call[t].f = f /\ call[t].p.choice = PyBool(TRUE)
      => call[t].cmd.verb = SuffixedVerb[f]

C1_Witness ==
  \E t \in Threads :
    /\ Shaped(t) /\ call[t].f = "lpush" /\ call[t].p.choice = PyBool(TRUE)
    /\ call[t].cmd.verb = <<"L","P","U","S","H","X">>

\* The text reads "true" in some letter case.
SpellsTrue(s) ==
  /\ Len(s) = 4
  /\ s[1] \in {"t", "T"} /\ s[2] \in {"r", "R"}
  /\ s[3] \in {"u", "U"} /\ s[4] \in {"e", "E"}

\* C2 as stated: for every value of no_overwrite other than the boolean True
\* (absent, False, 0, 1, None, any string) the verb is the base verb.
C2_AnyOtherValueKeepsBaseVerb ==
  \A t \in Threads :
    Shaped(t) /\ IsVariant(call[t].f) /\ call[t].p.choice # PyBool(TRUE)
      => call[t].cmd.verb = FacadeTable(call[t].f).verb

\* C2 amended: for every value of no_overwrite other than the boolean True and
\* other than a string reading "true" in any letter case (absent, False, 0, 1,
\* None, a string such as "yes") the verb is the base verb.
C2_NonTrueValueKeepsBaseVerb ==
  \A t \in Threads :
    /\ Shaped(t) /\ IsVariant(call[t].f) /\ call[t].p.choice # PyBool(TRUE)
    /\ ~(call[t].p.choice.ty = "str" /\ SpellsTrue(call[t].p.choice.s))
    => call[t].cmd.verb = FacadeTable(call[t].f).verb

C2_Witness ==
  \E t \in Threads :
    /\ Shaped(t) /\ call[t].f = "hset" /\ call[t].p.choice = PyInt(1)
    /\ call[t].cmd.verb = <<"H","S","E","T">>

\* C3: every variadic facade hands the dispatcher its elements stringified, in
\* the order given and as many as given; hdel, hmget, rpush, lpush, sadd,
\* sdiffstore, sinterstore and lrem put the key first and the elements after it
\* in their order.
C3_ElementOrderPreserved ==
  \A t \in Threads :
    Shaped(t) =>
      LET c == call[t]
          args == c.cmd.args
          n == Len(c.p.elems)
          strs == [i \in 1..n |-> PyToString(c.p.elems[i])]
      IN /\ c.f \in {"manual", "delete", "exists", "unlink", "mget", "sdiff", "sinter"}
              => args = strs
         /\ c.f \in {"hdel", "hmget", "rpush", "lpush", "sadd", "sdiffstore",
                     "sinterstore", "lrem"}
              => /\ Len(args) >= n + 1
                 /\ args[1] = c.p.key
                 /\ SubSeq(args, Len(args) - n + 1, Len(args)) = strs

C3_Witness ==
  \E t \in Threads :
    /\ Shaped(t) /\ call[t].f = "lrem"
    /\ Len(call[t].p.elems) = 2 /\ call[t].p.elems[1] # call[t].p.elems[2]
    /\ call[t].cmd.args[1] = call[t].p.key

C5_DeleteExistsSuppressErrors ==
  \A t \in Threads :
    Done(t) /\ call[t].f \in {"delete", "exists"} /\ ~call[t].res.ok
      => ~call[t].out.raised /\ call[t].out.val = TInt(0)

C7_ClassifiedBySpecTable ==
  \A t \in Threads :
    Done(t) /\ call[t].frame.t = "error" =>
      call[t].res.exc =
        IF \/ StartsWith(call[t].frame.s, <<"W","R","O","N","G","T","Y","P","E">>)
           \/ StartsWith(call[t].frame.s, NotIntegerLine)
           \/ StartsWith(call[t].frame.s, SyntaxLine)
        THEN "TypeError" ELSE "Exception"

\* C7 amended: a server error is classified by its code, the first word of the
\* line: WRONGTYPE and NOAUTH (codes the client library has no kind for) are
\* raised as TypeError, ERR (also "value is not an integer or out of range" and
\* "syntax error") and LOADING as the generic exception; none is raised as
\* IOError.
C7_ClassifiedByCode ==
  \A t \in Threads :
    Done(t) /\ call[t].frame.t = "error" =>
      LET line == call[t].frame.s
      IN /\ call[t].res.exc \in {"TypeError", "Exception"}
         /\ StartsWith(line, <<"W","R","O","N","G","T","Y","P","E"," ">>) \/ StartsWith(line, <<"N","O","A","U","T","H"," ">>)
              => call[t].res.exc = "TypeError"
         /\ StartsWith(line, <<"E","R","R"," ">>) \/ StartsWith(line, <<"L","O","A","D","I","N","G"," ">>)
              => call[t].res.exc = "Exception"

C7_Witness ==
  \E t \in Threads :
    /\ Done(t) /\ call[t].frame = FError(NoAuthLine)
    /\ call[t].f \notin LenientFacades
    /\ call[t].out.raised /\ call[t].out.exc = "TypeError"

\* lpush of thread t, given an element, was answered by the server while its
\* key holds a string.
LpushOnString(t) ==
  /\ Done(t) /\ call[t].f = "lpush" /\ Answered(t)
  /\ Len(call[t].cmd.args) >= 2
  /\ Lookup(store, call[t].cmd.args[1]).t = "string"
  /\ call[t].frame \notin AnyCommandErrors

\* C8 as stated: lpush on a key holding a string raises TypeError with a
\* message containing WRONGTYPE.
C8_MessageContainsWrongType ==
  \A t \in Threads :
    LpushOnString(t) =>
      /\ call[t].out.raised /\ call[t].out.exc = "TypeError"
      /\ Contains(call[t].out.msg, <<"W","R","O","N","G","T","Y","P","E">>)

C8_RaisesTypeErrorWithDetail ==
  \A t \in Threads :
    LpushOnString(t) =>
      /\ call[t].frame = FError(WrongTypeLine)
      /\ call[t].out.raised /\ call[t].out.exc = "TypeError"
      /\ call[t].out.msg = <<"O","p","e","r","a","t","i","o","n"," ","a","g","a","i","n","s","t"," ","a"," ","k","e","y"," ","h","o","l","d","i","n","g"," ","t","h","e"," ","w","r","o","n","g"," ","k","i","n","d"," ","o","f"," ","v","a","l","u","e">>

\* The server leaves the keyspace alone when the next command is a push onto a
\* key holding a string.
C8_StringKept ==
  (/\ outWire # <<>>
   /\ Head(outWire).cmd.verb \in {<<"L","P","U","S","H">>, <<"L","P","U","S","H","X">>}
   /\ Head(outWire).cmd.args # <<>>
   /\ Lookup(store, Head(outWire).cmd.args[1]).t = "string")
  => store' = store

\* C8 amended: lpush on a key holding a string raises TypeError, the message is
\* the server's detail "Operation against a key holding the wrong kind of
\* value" (the code WRONGTYPE is not part of it), and the value is unchanged.
C8_WrongTypeLpush == []C8_RaisesTypeErrorWithDetail /\ [][C8_StringKept]_vars

C8_Witness ==
  \E t \in Threads :
    /\ LpushOnString(t) /\ call[t].out.raised /\ call[t].out.exc = "TypeError"
    /\ store[<<"s">>] = VString(<<"1">>)

C9_LaterCommandsFail ==
  /\ ioFailed => sock = "down"
  /\ \A t \in Threads :
       Done(t) /\ call[t].afterFail =>
         /\ ~call[t].res.ok /\ call[t].res.kind = "IoError"
         /\ call[t].res.exc = "IOError"
         /\ ~Answered(t)
         /\ call[t].touched
         /\ call[t].f \notin LenientFacades
              => call[t].out.raised /\ call[t].out.exc = "IOError"
         /\ call[t].f \in LenientFacades
              => call[t].out = Outcome(FALSE, TStr(<<>>), "", <<>>)

C10_OneOutstandingCommand ==
  /\ Len(outWire) + Len(inWire) <= 1
  /\ \A t \in Threads :
       /\ call[t].pc = "write" => outWire = <<>> /\ inWire = <<>>
       /\ call[t].pc = "read" =>
            /\ \A i \in 1..Len(outWire) : outWire[i] = [by |-> t, cmd |-> call[t].cmd]
            /\ \A i \in 1..Len(inWire) : inWire[i].to = [by |-> t, cmd |-> call[t].cmd]
       /\ Done(t) /\ Answered(t) =>
            call[t].answered = [by |-> t, cmd |-> call[t].cmd]

C10_Witness ==
  /\ call[2].pc = "read" /\ Len(inWire) = 1 /\ inWire[1].to.by = 2
  /\ ioFailed = FALSE
  /\ store[<<"s">>].t = "list"

\* C11: nothing is retried. A facade call hands each of its commands to the
\* stream at most once (one command, or for lelements LLEN and then LRANGE),
\* and once a command of the call has failed the call sends nothing more: a
\* call that ends in an error sent exactly the failed command last, and
\* lelements whose LLEN failed never sends LRANGE.
C11_NothingRetried ==
  \A t \in Threads :
    LET c == call[t]
    IN /\ Len(c.sent) <= c.stage
       /\ c.pc = "write" => Len(c.sent) = c.stage - 1
       /\ c.pc \in {"read", "done"} => Len(c.sent) = c.stage
       /\ c.f # "lelements" => Len(c.sent) <= 1
       /\ Len(c.sent) = 2 => c.sent[1].verb = <<"L","L","E","N">> /\ c.sent[2].verb = <<"L","R","A","N","G","E">>
       /\ Done(t) /\ c.f = "lelements" /\ c.stage = 1 =>
            ~c.res.ok /\ c.out.raised /\ c.sent = <<Cmd(<<"L","L","E","N">>, c.cmd.args)>>

C11_Witness ==
  \E t \in Threads :
    /\ Done(t) /\ call[t].f = "lelements" /\ call[t].stage = 1
    /\ call[t].frame = FError(WrongTypeLine)
    /\ call[t].sent = <<Cmd(<<"L","L","E","N">>, <<<<"s">>>>)>>

\* C12: the constructor's URL normalization puts redis:// in front of the
\* input exactly when the input does not start with it and otherwise leaves
\* the input as it is; normalizing the result again changes nothing.
C12_UrlNormalizationIdempotent ==
  ctor.pc # "start" =>
    LET u == ctor.arg
        prefixed == Len(u) >= 8 /\ SubSeq(u, 1, 8) = <<"r","e","d","i","s",":","/","/">>
    IN /\ prefixed => ctor.protected = u
       /\ ~prefixed => ctor.protected = <<"r","e","d","i","s",":","/","/">> \o u
       /\ protected_url(ctor.protected) = ctor.protected
       /\ protected_url(protected_url(u)) = protected_url(u)

C12_Witness ==
  /\ ctor.pc = "opened" /\ ctor.arg = <<"h","/","1">> /\ ctor.protected = <<"r","e","d","i","s",":","/","/","h","/","1">>

\* C13 as stated: a construction that fails ends in a raised error of the
\* taxonomy, ConfigError for a URL that does not parse and IoError for a
\* failure to connect, never in an abort, and holds no connection.
C13_ConstructionFailsWithErrorValue ==
  ctor.pc = "failed" =>
    /\ ctor.out = (IF ParseRedisUrl(ctor.protected).ok THEN "IoError" ELSE "ConfigError")
    /\ ~ctor.conn

\* C14 as stated: whatever was called on a client, manual("SELECT", n)
\* included, its db attribute is the index of the database its connection is on.
C14_DbAttributeIsSelectedDb ==
  ctor.pc = "built" => db = selected

\* The outcome facade g gives a call that sent the command of thread t's call
\* and got what that call got (its reply, or its failure of the stream).
OutcomeVia(g, t) ==
  IF Answered(t)
  THEN FacadeOutcome(g, route_command(Query(call[t].frame, RType(g, 1))))
  ELSE FacadeOutcome(g, route_command(ConvErr(IoFailure)))

\* C15: manual("SET", key, value) equals set(key, value) without no_overwrite:
\* for every key and value both hand the dispatcher the same command, verb SET
\* with the arguments key and str(value), and for the same reply or failure
\* both return the same value or raise the same error.
C15_ManualSetEqualsSet ==
  \A t \in Threads :
    LET c == call[t]
    IN /\ Shaped(t) /\ c.f = "sset" /\ c.p.choice = Absent =>
            /\ c.cmd = Cmd(<<"S","E","T">>, <<c.p.key, PyToString(c.p.val)>>)
            /\ FirstCmds("manual", [NoParams EXCEPT !.cmd = <<"S","E","T">>,
                                      !.elems = <<PyStr(c.p.key), c.p.val>>]) = {c.cmd}
       /\ Shaped(t) /\ c.f = "manual" /\ c.p.cmd = <<"S","E","T">> /\ Len(c.p.elems) = 2
            /\ c.p.elems[1].ty = "str" =>
            FirstCmds("sset", [NoParams EXCEPT !.key = c.p.elems[1].s,
                                 !.val = c.p.elems[2]]) = {c.cmd}
       /\ Done(t) /\ c.f \in {"sset", "manual"} /\ c.cmd.verb = <<"S","E","T">>
            /\ Len(c.cmd.args) = 2 =>
            c.out = OutcomeVia("sset", t) /\ c.out = OutcomeVia("manual", t)

C15_Witness ==
  \E t \in Threads :
    /\ Done(t) /\ call[t].f = "manual" /\ call[t].cmd = Cmd(<<"S","E","T">>, <<<<"s">>, <<"1">>>>)
    /\ call[t].frame = FStatus(<<"O","K">>) /\ call[t].out = Outcome(FALSE, TStr(<<"O","K">>), "", <<>>)
    /\ store[<<"s">>] = VString(<<"1">>)

\* The call of thread t was answered with the reply of its command itself,
\* not with an error the server gives to any command.
Served(t) == Done(t) /\ Answered(t) /\ call[t].frame \notin AnyCommandErrors

\* C16: set/get round trip. set(k, v) without no_overwrite returns "OK" and
\* leaves v stored at k; get(k) returns the string stored at k. Calls on one
\* client run one after the other, so a get(k) issued next, with no write to k
\* in between, returns v.
C16_SetGetRoundTrip ==
  \A t \in Threads :
    LET c == call[t]
    IN /\ Served(t) /\ c.f = "sset" /\ c.cmd.verb = <<"S","E","T">> =>
            /\ c.out = Outcome(FALSE, TStr(<<"O","K">>), "", <<>>)
            /\ store[c.cmd.args[1]] = VString(c.cmd.args[2])
       /\ Served(t) /\ c.f = "get" /\ Lookup(store, c.cmd.args[1]).t = "string" =>
            c.out = Outcome(FALSE, TStr(store[c.cmd.args[1]].s), "", <<>>)

C16_Witness ==
  \E t \in Threads :
    /\ Served(t) /\ call[t].f = "get" /\ call[t].cmd.args = <<<<"s">>>>
    /\ store[<<"s">>] = VString(<<"1">>)
    /\ call[t].frame = FData(<<"1">>)
    /\ call[t].out = Outcome(FALSE, TStr(<<"1">>), "", <<>>)

\* C17 as stated: set(k, w, no_overwrite=True) on a key that holds a value
\* (the server refuses, the key keeps its value) returns the empty string
\* without raising.
C17_NxRefusalReturnsEmpty ==
  \A t \in Threads :
    Served(t) /\ call[t].f = "sset" /\ call[t].cmd.verb = <<"S","E","T","N","X">>
      /\ call[t].frame = FInt(0) =>
        /\ Holds(store, call[t].cmd.args[1])
        /\ call[t].out = Outcome(FALSE, TStr(<<>>), "", <<>>)

\* C18 as stated: rename returns "OK" exactly when the key was renamed and ""
\* when the key does not exist, whatever no_overwrite is (also for
\* no_overwrite=True with newkey absent, where the rename is performed).
C18_RenameReturnsOkWhenRenamed ==
  \A t \in Threads :
    Served(t) /\ call[t].f = "rename" =>
      LET renamed == call[t].frame \in {FStatus(<<"O","K">>), FInt(1)}
      IN /\ ~call[t].out.raised
         /\ renamed <=> call[t].out.val = TStr(<<"O","K">>)
         /\ call[t].frame = FError(NoSuchKeyLine) => call[t].out.val = TStr(<<>>)

\* C19 as stated: rpush of n elements onto an absent key returns n, and
\* lrange(L, 0, -1) is accepted with its negative end index.
C19_ListOrderWithNegativeEnd ==
  \A t \in Threads :
    LET c == call[t]
    IN /\ c.f = "lrange" /\ c.p.num2 = -1 => c.pc # "rejected"
       /\ Served(t) /\ c.f = "rpush" /\ c.cmd.verb = <<"R","P","U","S","H">> /\ Len(c.cmd.args) >= 2
            /\ Lookup(store, c.cmd.args[1]).l = Tail(c.cmd.args)
            => c.out = Outcome(FALSE, TInt(Len(c.cmd.args) - 1), "", <<>>)

\* C20: with no other client writing to the key, lelements(key) returns every
\* element of the list at key, in list order, none left out and none twice,
\* whatever the length: the empty list for a missing key.
C20_LelementsReturnsWholeList ==
  \A t \in Threads :
    Served(t) /\ call[t].f = "lelements" /\ call[t].stage = 2 =>
      LET key == call[t].cmd.args[1]
      IN /\ Lookup(store, key).t # "string"
         /\ call[t].sent = <<Cmd(<<"L","L","E","N">>, <<key>>),
                             Cmd(<<"L","R","A","N","G","E">>, <<key, <<"0">>, IntToString(Len(Lookup(store, key).l))>>)>>
         /\ call[t].out = Outcome(FALSE, TList(Lookup(store, key).l), "", <<>>)

C20_Witness ==
  \E t \in Threads :
    /\ Served(t) /\ call[t].f = "lelements" /\ call[t].stage = 2
    /\ store[<<"s">>] = VList(<<<<"1">>, <<"s">>>>)
    /\ call[t].out.val = TList(<<<<"1">>, <<"s">>>>)

\* C21 as stated: a facade given a variadic element that is itself a sequence
\* (a list) fails with TypeError and hands no command to the connection.
C21_NestedSequenceRejected ==
  \A t \in Threads :
    call[t].pc # "idle" /\ (\E i \in 1..Len(call[t].p.elems) : call[t].p.elems[i].ty = "list")
      => /\ call[t].pc = "rejected"
         /\ call[t].out.raised /\ call[t].out.exc = "TypeError"
         /\ call[t].cmd = NoCmd

\* The position of the first pair in the argument vector of a mapping facade.
PairBase(f) == IF f = "hset" THEN 1 ELSE 0

\* C22: for a mapping of n entries, mset hands over exactly 2n arguments and
\* hset the key followed by 2n arguments; every key of the mapping stands at
\* the first position of exactly one pair and is immediately followed by the
\* string form of the value mapped to it.
C22_MappingFlattenedToPairs ==
  \A t \in Threads :
    Shaped(t) /\ call[t].f \in {"mset", "hset"}
      => LET f == call[t].f
             m == call[t].p.map
             n == Cardinality(DOMAIN m)
             args == call[t].cmd.args
             base == PairBase(f)
         IN /\ Len(args) = base + 2 * n
            /\ f = "hset" => args[1] = call[t].p.key
            /\ \A k \in DOMAIN m :
                 /\ Cardinality({i \in 1..n : args[base + 2 * i - 1] = k}) = 1
                 /\ \A i \in 1..n :
                      args[base + 2 * i - 1] = k
                        => args[base + 2 * i] = PyToString(m[k])

\* An hset of a two-entry mapping with different values has been shaped.
C22_Witness ==
  \E t \in Threads :
    /\ Shaped(t) /\ call[t].f = "hset"
    /\ DOMAIN call[t].p.map = MapKeys
    /\ call[t].p.map[<<"a">>] # call[t].p.map[<<"b">>]
    /\ Len(call[t].cmd.args) = 5

\* C23 as stated: whenever the server executes SINTERSTORE successfully, that
\* is answers with the integer size of the stored set, sinterstore returns
\* that integer.
C23_SinterstoreReturnsLength ==
  \A t \in Threads :
    Done(t) /\ Answered(t) /\ call[t].f = "sinterstore" /\ call[t].frame.t = "int"
      => /\ ~call[t].out.raised
         /\ call[t].out.val = TInt(call[t].frame.n)

\* C24 as stated: whenever the server executes LTRIM successfully, ltrim
\* returns an integer, the length of the trimmed list.
C24_LtrimReturnsLength ==
  \A t \in Threads :
    Served(t) /\ call[t].f = "ltrim" /\ call[t].frame = FStatus(<<"O","K">>)
      => /\ ~call[t].out.raised
         /\ call[t].out.val = TInt(Len(Lookup(store, call[t].cmd.args[1]).l))

\* C25 as stated: the command linsert sends carries the key, a BEFORE or AFTER
\* position, the pivot and the element, and the call returns an integer: the
\* length of the list after the insert, or -1 when the pivot is not found.
C25_LinsertSendsPivotAndReturnsLength ==
  \A t \in Threads :
    call[t].f = "linsert"
      => /\ Shaped(t)
              => /\ Len(call[t].cmd.args) = 4
                 /\ call[t].cmd.args[1] = call[t].p.key
                 /\ call[t].cmd.args[2] \in {<<"B","E","F","O","R","E">>, <<"A","F","T","E","R">>}
                 /\ call[t].cmd.args[4] = call[t].p.key2
         /\ Served(t)
              => /\ ~call[t].out.raised
                 /\ call[t].out.val.t = "int"
                 /\ call[t].out.val.n >= -1

\* The strict facades that expect a bulk string.
StrictBulkFacades == {"hget", "lpop", "rpop", "lindex", "getset", "rpoplpush", "manual"}

\* C26 as stated: for hget, lpop, rpop, lindex, getset, rpoplpush and manual,
\* a Nil reply is returned as the empty string and the call does not raise.
C26_NilBecomesEmptyString ==
  \A t \in Threads :
    Done(t) /\ Answered(t) /\ call[t].f \in StrictBulkFacades /\ call[t].frame = FNil
      => /\ ~call[t].out.raised
         /\ call[t].out.val = TStr(<<>>)

RECURSIVE SplitLines(_)
\* The CRLF-terminated lines of b, without their terminators.
SplitLines(b) ==
  IF b = <<>> THEN <<>>
  ELSE LET e == CrlfAt(b)
       IN IF e = 0 THEN <<b>>
          ELSE <<SubSeq(b, 1, e - 1)>> \o SplitLines(SubSeq(b, e + 2, Len(b)))

\* Line s is the tag followed by the decimal form of n.
Declares(s, tag, n) ==
  s # <<>> /\ Head(s) = tag /\ IsDigits(Tail(s)) /\ DigitsVal(Tail(s)) = n

ErrorReturned(t) ==
  IF Answered(t) THEN Query(call[t].frame, RType(call[t].f, call[t].stage)).err
  ELSE IoFailure

\* The dispatcher of thread t ended with an error.
Failed(t) == Done(t) /\ ~call[t].res.ok

\* C28: every error the connection returns raises exactly one exception kind
\* in the dispatcher, chosen by the error's kind alone (ExtensionError and
\* TypeError raise TypeError, IoError raises IOError, every other kind the
\* generic Exception), with the error's detail as message, or the text
\* 'Unknown exception!' when the error has no detail.
C28_ClassificationTotalSingleValued ==
  \A t \in Threads :
    Failed(t) =>
      LET e == ErrorReturned(t)
          r == call[t].res
      IN /\ r.exc \in {"TypeError", "IOError", "Exception"}
         /\ r.exc = "TypeError" <=> e.kind \in {"ExtensionError", "TypeError"}
         /\ r.exc = "IOError" <=> e.kind = "IoError"
         /\ r.msg = (IF e.hasDetail THEN e.detail ELSE <<"U","n","k","n","o","w","n"," ","e","x","c","e","p","t","i","o","n","!">>)

\* An error without detail, the failure of the stream, has been raised as
\* IOError with the default text.
C28_Witness ==
  \E t \in Threads :
    /\ Failed(t) /\ ErrorReturned(t) = IoFailure
    /\ call[t].res.exc = "IOError" /\ call[t].res.msg = <<"U","n","k","n","o","w","n"," ","e","x","c","e","p","t","i","o","n","!">>

\* C29 as stated: setex, psetex and setrange, called with (key, value,
\* number), each send the key, then the number (seconds, milliseconds or
\* offset), then the value.
C29_NumberBeforeValueOnWire ==
  \A t \in Threads :
    Shaped(t) /\ call[t].f \in {"setex", "psetex", "setrange"}
      => call[t].cmd.args =
           <<call[t].p.key, IntToString(call[t].p.num), PyToString(call[t].p.val)>>

\* C30 as stated: with another client pushing and popping on the same key
\* between the LLEN and the LRANGE of lelements, in every interleaving the
\* list lelements returns is the complete list as it is when LRANGE executes.
C30_LelementsAtomicAmongClients ==
  \A t \in Threads :
    Served(t) /\ call[t].f = "lelements" /\ call[t].stage = 2
              /\ call[t].frame.t = "array"
      => call[t].out = Outcome(FALSE, TList(Lookup(store, call[t].cmd.args[1]).l), "", <<>>)


====
